---- MODULE Spec2Model ----
(***************************************************************************)
(* Model of the react-native-audio-waveform C++ core.                      *)
(*                                                                         *)
(*  Part I   the instance registry, AudioWaveformFactoryImpl               *)
(*           (src/cpp/AudioWaveformFactory.cpp): caller threads running    *)
(*           createPlayer, removePlayer and stopAllPlayers under           *)
(*           playersMutex_.                                                *)
(*  Part II  the extraction engine, WaveformExtractorBase::extract         *)
(*           (src/cpp/WaveformExtractorBase.cpp) driving                   *)
(*           WaveformProcessor::processWaveform                            *)
(*           (src/cpp/WaveformProcessor.cpp) and its workers.              *)
(*  Part III the extractor map of the registry.                            *)
(*  Part IV  processWaveform on concrete samples.                          *)
(*  Part V   the callback slots of a handle under callbackMutex_           *)
(*           (src/cpp/AudioPlayerBase.hpp, AudioRecorderBase.hpp,          *)
(*           WaveformExtractorBase.hpp).                                   *)
(*  Part VI  the state of a playback handle and of a capture handle.       *)
(*  Part VII the teardown of the registry, cleanupAllInstances.            *)
(*  Part VIII normalizeWaveform on concrete values.                        *)
(*  Part IX  the bucket ranges of the workers of processWaveform.          *)
(*                                                                         *)
(* Every atomic step of the model holds at most one access to state that   *)
(* another thread can see.                                                 *)
(***************************************************************************)
EXTENDS Integers, Sequences, FiniteSets, TLC

VARIABLES
  players_,        \* AudioWaveformFactoryImpl::players_ : key -> handle id
  playersMutex_,   \* the set holding the thread that owns playersMutex_
  thr,             \* per caller thread: position, locals and history
  playing,         \* handle ids whose platform player reports isPlaying()
  nextHandle,      \* id of the next instance createPlatformPlayer yields
  cancelled_,      \* WaveformExtractorBase::cancelled_
  progress_,       \* WaveformExtractorBase::progress_, a fraction <<n, d>>
  progressCallback_,  \* TRUE iff the progress callback slot holds a callback
  delivered,       \* the values handed to the callback by the current job
  job,             \* the task of extract() / the call of processWaveform
  wk,              \* the loops of processWaveform: position and locals
  hist,            \* history of the current job, read by the properties only
  extractors_,     \* AudioWaveformFactoryImpl::extractors_ : key -> extractor id
  extractorsMutex_,  \* the set holding the thread that owns extractorsMutex_
  xthr,            \* per caller thread of the extractor map: position, locals
  flagged,         \* extractor ids whose cancelled_ flag is set
  nextExtractor,   \* id of the next instance createPlatformExtractor yields
  pk,              \* one call of processWaveform on concrete samples
  slots,           \* the callback slots of one handle: slot -> callback id, 0 = empty
  callbackMutex_,  \* the set holding the thread that owns callbackMutex_
  cth,             \* per thread using the slots: position and locals
  state_,          \* AudioPlayerBase::state_
  pth,             \* per thread using the playback handle: its last operation
  isRecording_,    \* AudioRecorderBase::isRecording_
  isPaused_,       \* AudioRecorderBase::isPaused_
  rec,             \* the capture operation under way
  recorderInstance_,  \* AudioWaveformFactoryImpl::recorderInstance_
  td,              \* the destructor of the registry: position and locals
  nz,              \* one call of normalizeWaveform on concrete values
  pt               \* the writes of the workers of one processWaveform call

regVars == <<players_, playersMutex_, thr, playing, nextHandle>>

extVars == <<cancelled_, progress_, progressCallback_, delivered, job, wk, hist>>

xrVars == <<extractors_, extractorsMutex_, xthr, flagged, nextExtractor>>

cbVars == <<slots, callbackMutex_, cth>>

hdVars == <<state_, pth, isRecording_, isPaused_, rec>>

tdVars == <<recorderInstance_, td>>

newVars == <<cbVars, hdVars, tdVars, nz, pt>>

oldVars == <<regVars, extVars, xrVars, pk>>

vars == <<regVars, extVars, xrVars, pk, newVars>>

(***************************************************************************)
(* Part I.  The instance registry                                          *)
(***************************************************************************)

\* static constexpr size_t MAX_PLAYERS = 30;
MAX_PLAYERS == 30

\* Bounds of the registry model.
NumHotKeys == 2      \* keys the caller threads create and remove
PrefillGap == 1      \* free slots left by the players registered at the start
MaxHandles == 2      \* instances the platform creates during a run

\* the caller threads
RThreads == {1, 2}
Prefill == MAX_PLAYERS - PrefillGap
ColdKeys == 1..Prefill
HotKeys == (Prefill + 1)..(Prefill + NumHotKeys)
LastHandle == Prefill + MaxHandles

EmptyMap == [k \in {} |-> 0]

\* players_.size()
MapSize(m) == Cardinality(DOMAIN m)

\* players_.find(key) != players_.end()
HasKey(m, key) == key \in DOMAIN m

\* players_[key] = player
MapPut(m, key, h) == [k \in (DOMAIN m) \cup {key} |-> IF k = key THEN h ELSE m[k]]

MapErase_KeepEntry(m, key) == m

\* players_.erase(it)
MapErase(m, key) == [k \in (DOMAIN m) \ {key} |-> m[k]]

ClearedMap_Keep(m) == m

\* players_.clear()
ClearedMap(m) == EmptyMap

MapHandles(m) == {m[k] : k \in DOMAIN m}

CapacityReached_OffByOne(n) == n > MAX_PLAYERS

\* if (players_.size() >= MAX_PLAYERS)
CapacityReached(n) == n >= MAX_PLAYERS

LockFree_NoExclusion == TRUE

\* std::lock_guard<std::mutex> lock(playersMutex_) can be taken
LockFree == playersMutex_ = {}

IdleThread ==
  [ pc |-> "idle", op |-> "none", key |-> 0, out |-> "none", h |-> 0,
    snap |-> EmptyMap, free |-> FALSE, evicted |-> FALSE, rivals |-> {},
    left |-> {}, cur |-> 0, allStopped |-> TRUE,
    seen |-> {}, invoked |-> {}, failed |-> FALSE, unclean |-> FALSE ]

InFlight(u) == thr[u].pc \notin {"idle", "returned"}

\* history: the threads with a pending createPlayer(key) are marked evicted
\* when their key is taken out of the map
Evict(t, keys) ==
  [u \in RThreads |->
     IF thr[u].op = "createPlayer" /\ thr[u].key \in keys
     THEN [thr[u] EXCEPT !.evicted = TRUE] ELSE thr[u]]

\* ---- createPlayer(key), AudioWaveformFactory.cpp:43-68 ----

CallCreatePlayer(t, k) ==
  /\ thr[t].pc = "idle"
  /\ nextHandle + Cardinality({u \in RThreads : thr[u].op = "createPlayer"
                                 /\ thr[u].pc \in {"cp_lock", "cp_find", "cp_cap", "cp_create"}})
       <= LastHandle
  /\ LET same == {u \in RThreads \ {t} : /\ thr[u].op = "createPlayer"
                                         /\ thr[u].key = k
                                         /\ InFlight(u)}
     IN thr' = [u \in RThreads |->
                  IF u = t
                  THEN [IdleThread EXCEPT !.pc = "cp_lock", !.op = "createPlayer",
                                          !.key = k, !.rivals = same,
                                          !.free = ~HasKey(players_, k)]
                  ELSE IF u \in same
                       THEN [thr[u] EXCEPT !.rivals = @ \cup {t}]
                       ELSE thr[u]]
  /\ UNCHANGED <<players_, playersMutex_, playing, nextHandle, extVars, xrVars, pk, newVars>>

CpLock(t) ==
  /\ thr[t].pc = "cp_lock"
  /\ LockFree
  /\ playersMutex_' = {t}
  /\ thr' = [thr EXCEPT ![t].pc = "cp_find", ![t].snap = players_]
  /\ UNCHANGED <<players_, playing, nextHandle, extVars, xrVars, pk, newVars>>

CpFind_CapacityFirst(t) ==
  /\ thr[t].pc = "cp_find"
  /\ thr' = IF CapacityReached(MapSize(players_))
            THEN [thr EXCEPT ![t].pc = "unlock", ![t].out = "capacity"]
            ELSE IF HasKey(players_, thr[t].key)
            THEN [thr EXCEPT ![t].pc = "unlock", ![t].out = "duplicate"]
            ELSE [thr EXCEPT ![t].pc = "cp_cap"]
  /\ UNCHANGED <<players_, playersMutex_, playing, nextHandle, extVars, xrVars, pk, newVars>>

\* if (players_.find(key) != players_.end()) throw ... already exists
CpFind(t) ==
  /\ thr[t].pc = "cp_find"
  /\ thr' = IF HasKey(players_, thr[t].key)
            THEN [thr EXCEPT ![t].pc = "unlock", ![t].out = "duplicate"]
            ELSE [thr EXCEPT ![t].pc = "cp_cap"]
  /\ UNCHANGED <<players_, playersMutex_, playing, nextHandle, extVars, xrVars, pk, newVars>>

CpCap(t) ==
  /\ thr[t].pc = "cp_cap"
  /\ thr' = IF CapacityReached(MapSize(players_))
            THEN [thr EXCEPT ![t].pc = "unlock", ![t].out = "capacity"]
            ELSE [thr EXCEPT ![t].pc = "cp_create"]
  /\ UNCHANGED <<players_, playersMutex_, playing, nextHandle, extVars, xrVars, pk, newVars>>

CpCreate_RegistersFirst(t) ==
  /\ thr[t].pc = "cp_create"
  /\ \/ /\ thr' = [thr EXCEPT ![t].pc = "unlock", ![t].out = "noinstance"]
        /\ players_' = MapPut(players_, thr[t].key, 0)
        /\ UNCHANGED nextHandle
     \/ /\ thr' = [thr EXCEPT ![t].pc = "cp_store", ![t].h = nextHandle]
        /\ nextHandle' = nextHandle + 1
        /\ UNCHANGED players_
  /\ UNCHANGED <<playersMutex_, playing, extVars, xrVars, pk, newVars>>

\* createPlatformPlayer(key) yields an instance or none
CpCreate(t) ==
  /\ thr[t].pc = "cp_create"
  /\ \/ /\ thr' = [thr EXCEPT ![t].pc = "unlock", ![t].out = "noinstance"]
        /\ UNCHANGED nextHandle
     \/ /\ thr' = [thr EXCEPT ![t].pc = "cp_store", ![t].h = nextHandle]
        /\ nextHandle' = nextHandle + 1
  /\ UNCHANGED <<players_, playersMutex_, playing, extVars, xrVars, pk, newVars>>

CpStore(t) ==
  /\ thr[t].pc = "cp_store"
  /\ players_' = MapPut(players_, thr[t].key, thr[t].h)
  /\ thr' = [thr EXCEPT ![t].pc = "unlock", ![t].out = "ok"]
  /\ UNCHANGED <<playersMutex_, playing, nextHandle, extVars, xrVars, pk, newVars>>

\* ---- removePlayer(key), AudioWaveformFactory.cpp:156-166 ----

CallRemovePlayer(t, k) ==
  /\ thr[t].pc = "idle"
  /\ thr' = [thr EXCEPT ![t] = [IdleThread EXCEPT !.pc = "rm_lock",
                                                  !.op = "removePlayer", !.key = k]]
  /\ UNCHANGED <<players_, playersMutex_, playing, nextHandle, extVars, xrVars, pk, newVars>>

RmLock(t) ==
  /\ thr[t].pc = "rm_lock"
  /\ LockFree
  /\ playersMutex_' = {t}
  /\ thr' = [thr EXCEPT ![t].pc = "rm_find", ![t].snap = players_]
  /\ UNCHANGED <<players_, playing, nextHandle, extVars, xrVars, pk, newVars>>

RmFind_StopsThePlayer(t) ==
  /\ thr[t].pc = "rm_find"
  /\ IF HasKey(players_, thr[t].key)
     THEN /\ players_' = MapErase(players_, thr[t].key)
          /\ playing' = playing \ {players_[thr[t].key]}
          /\ thr' = [Evict(t, {thr[t].key}) EXCEPT ![t].pc = "unlock", ![t].out = "true"]
     ELSE /\ players_' = players_
          /\ playing' = playing
          /\ thr' = [thr EXCEPT ![t].pc = "unlock", ![t].out = "false"]
  /\ UNCHANGED <<playersMutex_, nextHandle, extVars, xrVars, pk, newVars>>

\* auto it = players_.find(key); if (it != players_.end()) { players_.erase(it);
\* return true; } return false;
RmFind(t) ==
  /\ thr[t].pc = "rm_find"
  /\ IF HasKey(players_, thr[t].key)
     THEN /\ players_' = MapErase(players_, thr[t].key)
          /\ thr' = [Evict(t, {thr[t].key}) EXCEPT ![t].pc = "unlock", ![t].out = "true"]
     ELSE /\ players_' = players_
          /\ thr' = [thr EXCEPT ![t].pc = "unlock", ![t].out = "false"]
  /\ UNCHANGED <<playersMutex_, playing, nextHandle, extVars, xrVars, pk, newVars>>

\* ---- stopAllPlayers(), AudioWaveformFactory.cpp:92-123 ----

CallStopAllPlayers(t) ==
  /\ thr[t].pc = "idle"
  /\ thr' = [thr EXCEPT ![t] = [IdleThread EXCEPT !.pc = "sa_lock",
                                                  !.op = "stopAllPlayers"]]
  /\ UNCHANGED <<players_, playersMutex_, playing, nextHandle, extVars, xrVars, pk, newVars>>

\* the task started by std::async takes the lock; bool allStopped = true
SaLock(t) ==
  /\ thr[t].pc = "sa_lock"
  /\ LockFree
  /\ playersMutex_' = {t}
  /\ thr' = [thr EXCEPT ![t].pc = "sa_loop", ![t].snap = players_,
                        ![t].left = DOMAIN players_, ![t].allStopped = TRUE]
  /\ UNCHANGED <<players_, playing, nextHandle, extVars, xrVars, pk, newVars>>

\* the entry the range-for reaches next (the hash table's order is fixed for
\* a given table; the model sweeps by ascending key)
NextInSweep(t) == CHOOSE k \in thr[t].left : \A j \in thr[t].left : k <= j

\* for (auto& pair : players_) ... if (player && player->isPlaying())
SaLoop(t) ==
  /\ thr[t].pc = "sa_loop"
  /\ IF thr[t].left = {}
     THEN thr' = [thr EXCEPT ![t].pc = "sa_clear"]
     ELSE LET k == NextInSweep(t)
              h == IF HasKey(players_, k) THEN players_[k] ELSE 0
          IN IF h \in playing
             THEN thr' = [thr EXCEPT ![t].pc = "sa_stop", ![t].cur = h,
                                     ![t].left = @ \ {k}, ![t].seen = @ \cup {h}]
             ELSE thr' = [thr EXCEPT ![t].left = @ \ {k}]
  /\ UNCHANGED <<players_, playersMutex_, playing, nextHandle, extVars, xrVars, pk, newVars>>

\* auto stopFuture = player->stop(): raises, yields no promise, or a promise;
\* if (stopFuture) { ... }
SaStop(t) ==
  /\ thr[t].pc = "sa_stop"
  /\ \E r \in {"throws", "nopromise", "promise"} :
       thr' = [thr EXCEPT
                 ![t].invoked = @ \cup {thr[t].cur},
                 ![t].pc = IF r = "promise" THEN "sa_await" ELSE "sa_loop",
                 ![t].allStopped = IF r = "throws" THEN FALSE ELSE @,
                 ![t].failed = IF r = "throws" THEN TRUE ELSE @,
                 ![t].unclean = IF r = "promise" THEN @ ELSE TRUE]
  /\ UNCHANGED <<players_, playersMutex_, playing, nextHandle, extVars, xrVars, pk, newVars>>

SaAwait_IgnoreFalse(t) ==
  /\ thr[t].pc = "sa_await"
  /\ \E r \in {"true", "false", "throws"} :
       /\ thr' = [thr EXCEPT
                    ![t].pc = "sa_loop",
                    ![t].allStopped = IF r = "throws" THEN FALSE ELSE @,
                    ![t].failed = IF r # "true" THEN TRUE ELSE @,
                    ![t].unclean = IF r # "true" THEN TRUE ELSE @]
       /\ playing' = IF r = "true" THEN playing \ {thr[t].cur} ELSE playing
  /\ UNCHANGED <<players_, playersMutex_, nextHandle, extVars, xrVars, pk, newVars>>

\* auto result = stopFuture->get(); if (!result) allStopped = false;
\* catch (const std::exception&) { allStopped = false; }
SaAwait(t) ==
  /\ thr[t].pc = "sa_await"
  /\ \E r \in {"true", "false", "throws"} :
       /\ thr' = [thr EXCEPT
                    ![t].pc = "sa_loop",
                    ![t].allStopped = IF r # "true" THEN FALSE ELSE @,
                    ![t].failed = IF r # "true" THEN TRUE ELSE @,
                    ![t].unclean = IF r # "true" THEN TRUE ELSE @]
       /\ playing' = IF r = "true" THEN playing \ {thr[t].cur} ELSE playing
  /\ UNCHANGED <<players_, playersMutex_, nextHandle, extVars, xrVars, pk, newVars>>

\* players_.clear(); return allStopped;
SaClear(t) ==
  /\ thr[t].pc = "sa_clear"
  /\ players_' = ClearedMap(players_)
  /\ thr' = [Evict(t, (DOMAIN players_) \ (DOMAIN players_'))
               EXCEPT ![t].pc = "unlock",
                      ![t].out = IF thr[t].allStopped THEN "true" ELSE "false"]
  /\ UNCHANGED <<playersMutex_, playing, nextHandle, extVars, xrVars, pk, newVars>>

\* ---- leaving a call ----

\* ~lock_guard(): the mutex is released when the body is left
Unlock(t) ==
  /\ thr[t].pc = "unlock"
  /\ playersMutex_' = playersMutex_ \ {t}
  /\ thr' = [thr EXCEPT ![t].pc = "ret"]
  /\ UNCHANGED <<players_, playing, nextHandle, extVars, xrVars, pk, newVars>>

\* the call returns to its caller; for stopAllPlayers the future becomes
\* ready, which is after the task has left the body and released the lock
Return(t) ==
  /\ thr[t].pc = "ret"
  /\ thr' = [thr EXCEPT ![t] =
              [IdleThread EXCEPT
                 !.pc = "returned", !.op = thr[t].op, !.key = thr[t].key,
                 !.out = thr[t].out, !.free = thr[t].free,
                 !.evicted = thr[t].evicted, !.rivals = thr[t].rivals]]
  /\ UNCHANGED <<players_, playersMutex_, playing, nextHandle, extVars, xrVars, pk, newVars>>

\* the caller drops the result and is free to call again
Forget(t) ==
  /\ thr[t].pc = "returned"
  /\ thr' = [u \in RThreads |->
               IF u = t THEN IdleThread
               ELSE [thr[u] EXCEPT !.rivals = @ \ {t}]]
  /\ UNCHANGED <<players_, playersMutex_, playing, nextHandle, extVars, xrVars, pk, newVars>>

\* ---- the platform player behind a handle ----

\* start(): the player of a handle begins to play
PlayerStart(h) ==
  /\ h \in (Prefill + 1)..(nextHandle - 1)
  /\ h \notin playing
  /\ playing' = playing \cup {h}
  /\ UNCHANGED <<players_, playersMutex_, thr, nextHandle, extVars, xrVars, pk, newVars>>

\* playback reaches the end of the audio
PlayerFinish(h) ==
  /\ h \in playing
  /\ playing' = playing \ {h}
  /\ UNCHANGED <<players_, playersMutex_, thr, nextHandle, extVars, xrVars, pk, newVars>>

(***************************************************************************)
(* Part II.  The extraction engine and the peak processor                  *)
(***************************************************************************)

\* if (pixel % 100 == 0 && isCancelled())
CancelPollInterval == 100

\* int samplesPerPixel = 100;  int numChannels = 2;  (extract)
DefaultSamplesPerPixel == 100
DefaultNumChannels == 2

\* Bounds of the extraction model.
MaxBuckets == 3      \* buckets of the audio the decoder yields for extract()
BigBuckets == 201    \* buckets of the large direct processWaveform() call

\* values std::thread::hardware_concurrency() can return
HardwareConcurrency == {0, 1, 2}
Workers == {0, 1}

\* sample counts the decoder yields, and those handed to processWaveform()
DecodedSizes ==
  {b * DefaultSamplesPerPixel * DefaultNumChannels : b \in 0..MaxBuckets}
DirectSizes == {0, 2, BigBuckets}

\* ---- progress values: exact fractions <<numerator, denominator>> ----

Zero == <<0, 1>>
One == <<1, 1>>
Frac(n, d) == <<n, d>>
Leq(a, b) == a[1] * b[2] <= b[1] * a[2]
Same(a, b) == a[1] * b[2] = b[1] * a[2]

\* if (progress < 0.0) progress = 0.0;  if (progress > 1.0) progress = 1.0;
Clamp(p) == IF ~Leq(Zero, p) THEN Zero ELSE IF ~Leq(p, One) THEN One ELSE p

\* reportProgress: processed / numPixels, then
\* progressMapper: 0.5 + (processorProgress * 0.3)
Mapped(processed, numPixels) == Frac(5 * numPixels + 3 * processed, 10 * numPixels)

Min(a, b) == IF a <= b THEN a ELSE b
Max(a, b) == IF a >= b THEN a ELSE b

NumPixels_SppOnly(samples, spp, ch) == samples \div spp

\* const size_t numPixels = totalSamples / samplesPerPixel / numChannels;
NumPixels(samples, spp, ch) == (samples \div spp) \div ch

\* const size_t numThreads = std::min(hardware_concurrency(), numPixels);
NumThreads(hw, numPixels) == Min(hw, numPixels)

PixelsPerThread_RoundedDown(numPixels, n) == numPixels \div n

\* const size_t pixelsPerThread = (numPixels + numThreads - 1) / numThreads;
PixelsPerThread(numPixels, n) == (numPixels + n - 1) \div n
StartPixel(t, numPixels, n) == t * PixelsPerThread(numPixels, n)
EndPixel(t, numPixels, n) ==
  Min(StartPixel(t, numPixels, n) + PixelsPerThread(numPixels, n), numPixels)

PollDue_Never(pixel) == FALSE

\* pixel % 100 == 0: the iterations at which a loop reads the flag
PollDue(pixel) == pixel % CancelPollInterval = 0

\* single-threaded loop: every 10% or every 1000 pixels
ReportDueSingle(pixel, numPixels) ==
  \/ pixel % Max(numPixels \div 10, 1) = 0
  \/ pixel % 1000 = 0

\* worker loop: every 5% or every 500 pixels
ReportDueMulti(processed, numPixels) ==
  \/ processed % Max(numPixels \div 20, 1) = 0
  \/ processed % 500 = 0

IdleWorker == [pc |-> "off", pos |-> 0, first |-> 0, last |-> 0, rep |-> 0]

IdleJob ==
  [pc |-> "idle", half |-> "store", samples |-> 0, numPixels |-> 0,
   numThreads |-> 0, direct |-> FALSE, report |-> FALSE,
   ret |-> "none", result |-> "none"]

NoHistory ==
  [cancelCalled |-> FALSE, sawCancel |-> FALSE, observed |-> FALSE, armed |-> FALSE,
   setInCall |-> FALSE, further |-> 0, whole |-> TRUE, raised |-> FALSE,
   stale |-> FALSE, again |-> FALSE]

\* the most buckets the history counts after the flag was set
FurtherCap == 2 * CancelPollInterval + 2

\* pixelsProcessed: every computed bucket has been counted
PixelsProcessed == wk[0].pos - wk[0].first + wk[1].pos - wk[1].first

Running == job.pc \notin {"idle", "resolved", "returned"}
InProcessWaveform == job.pc \in {"loops", "join", "final"}

\* ---- the callers of the handle ----

\* extract(): std::async launches the task and the future is returned
Extract ==
  /\ job.pc = "idle"
  /\ job' = [IdleJob EXCEPT !.pc = "start"]
  /\ hist' = [NoHistory EXCEPT !.stale = cancelled_]
  /\ delivered' = << >>
  /\ UNCHANGED <<cancelled_, progress_, progressCallback_, wk, regVars, xrVars, pk, newVars>>

Cancel_ZeroesProgress ==
  /\ cancelled_' = TRUE
  /\ progress_' = Zero
  /\ hist' = [hist EXCEPT
       !.cancelCalled = @ \/ Running,
       !.setInCall = @ \/ InProcessWaveform,
       !.armed = IF cancelled_ THEN @ ELSE InProcessWaveform,
       !.further = IF cancelled_ THEN @ ELSE 0,
       !.again = @ \/ (cancelled_ /\ Running /\ ~job.direct)]
  /\ UNCHANGED <<progressCallback_, delivered, job, wk, regVars, xrVars, pk, newVars>>

\* cancel(): cancelled_.store(true)
Cancel ==
  /\ cancelled_' = TRUE
  /\ hist' = [hist EXCEPT
       !.cancelCalled = @ \/ Running,
       !.setInCall = @ \/ InProcessWaveform,
       !.armed = IF cancelled_ THEN @ ELSE InProcessWaveform,
       !.further = IF cancelled_ THEN @ ELSE 0,
       !.again = @ \/ (cancelled_ /\ Running /\ ~job.direct)]
  /\ UNCHANGED <<progress_, progressCallback_, delivered, job, wk, regVars, xrVars, pk, newVars>>

\* resetCancellation(): cancelled_.store(false)
ResetCancellation ==
  /\ cancelled_' = FALSE
  /\ hist' = [hist EXCEPT !.armed = FALSE, !.further = 0]
  /\ UNCHANGED <<progress_, progressCallback_, delivered, job, wk, regVars, xrVars, pk, newVars>>

\* setProgressCallback(callback), between two jobs
SetProgressCallback ==
  /\ job.pc = "idle"
  /\ ~progressCallback_
  /\ progressCallback_' = TRUE
  /\ UNCHANGED <<cancelled_, progress_, delivered, job, wk, hist, regVars, xrVars, pk, newVars>>

\* clearProgressCallback(), between two jobs
ClearProgressCallback ==
  /\ job.pc = "idle"
  /\ progressCallback_
  /\ progressCallback_' = FALSE
  /\ UNCHANGED <<cancelled_, progress_, delivered, job, wk, hist, regVars, xrVars, pk, newVars>>

\* the future is read and dropped
ConsumeResult ==
  /\ job.pc \in {"resolved", "returned"}
  /\ job' = IdleJob
  /\ hist' = NoHistory
  /\ delivered' = << >>
  /\ UNCHANGED <<cancelled_, progress_, progressCallback_, wk, regVars, xrVars, pk, newVars>>

\* ---- the task of extract() ----

JobReset_KeepFlag ==
  /\ job.pc = "start"
  /\ job' = [job EXCEPT !.pc = "zero"]
  /\ UNCHANGED <<cancelled_, progress_, progressCallback_, delivered, wk, hist, regVars, xrVars, pk, newVars>>

\* resetCancellation();
JobReset ==
  /\ job.pc = "start"
  /\ cancelled_' = FALSE
  /\ job' = [job EXCEPT !.pc = "zero"]
  /\ hist' = [hist EXCEPT !.armed = FALSE, !.further = 0]
  /\ UNCHANGED <<progress_, progressCallback_, delivered, wk, regVars, xrVars, pk, newVars>>

\* progress_.store(0.0);
JobZero ==
  /\ job.pc = "zero"
  /\ progress_' = Zero
  /\ job' = [job EXCEPT !.pc = "up10"]
  /\ UNCHANGED <<cancelled_, progressCallback_, delivered, wk, hist, regVars, xrVars, pk, newVars>>

\* the calls of updateProgress made by the task and by the final
\* reportProgress(numPixels) of processWaveform
UpdStages == {"up0", "up10", "up50", "final", "up80", "up100"}

UpdValue(pc) ==
  CASE pc = "up0" -> Frac(0, 10)
    [] pc = "up10" -> Frac(1, 10)
    [] pc = "up50" -> Frac(5, 10)
    [] pc = "final" -> Mapped(job.numPixels, job.numPixels)
    [] pc = "up80" -> Frac(8, 10)
    [] pc = "up100" -> Frac(10, 10)

AfterUpd(pc) ==
  CASE pc = "up0" -> "resolved"
    [] pc = "up10" -> "chk1"
    [] pc = "up50" -> "proc"
    [] pc = "final" -> "procret"
    [] pc = "up80" -> "norm"
    [] pc = "up100" -> "resolved"

\* updateProgress: clamp, progress_.store(progress)
JobUpdStore ==
  /\ job.pc \in UpdStages
  /\ job.half = "store"
  /\ progress_' = Clamp(UpdValue(job.pc))
  /\ job' = [job EXCEPT !.half = "call"]
  /\ UNCHANGED <<cancelled_, progressCallback_, delivered, wk, hist, regVars, xrVars, pk, newVars>>

\* updateProgress: invokeProgressCallback(progress) under callbackMutex_
JobUpdCall ==
  /\ job.pc \in UpdStages
  /\ job.half = "call"
  /\ delivered' = IF progressCallback_ THEN <<Clamp(UpdValue(job.pc))>>
                  ELSE delivered
  /\ job' = [job EXCEPT !.half = "store", !.pc = AfterUpd(job.pc)]
  /\ UNCHANGED <<cancelled_, progress_, progressCallback_, wk, hist, regVars, xrVars, pk, newVars>>

CancelExit_NoReset == "resolved"

\* if (isCancelled()) { updateProgress(0.0); return {}; }
CancelExit == "up0"

AfterLastCheckpoint_NoFinalUpdate == "resolved"

\* updateProgress(1.0); return waveform;
AfterLastCheckpoint == "up100"

Checkpoints == {"chk1", "chk2", "chk3", "chk4"}

AfterCheckpoint(pc) ==
  CASE pc = "chk1" -> "decode"
    [] pc = "chk2" -> "up50"
    [] pc = "chk3" -> "up80"
    [] pc = "chk4" -> AfterLastCheckpoint

\* the four reads of the flag between the phases
JobCheckpoint ==
  /\ job.pc \in Checkpoints
  /\ IF cancelled_
       THEN /\ job' = [job EXCEPT !.pc = CancelExit, !.result = "empty",
                                  !.samples = 0]
            /\ hist' = [hist EXCEPT !.sawCancel = TRUE]
       ELSE /\ job' = [job EXCEPT !.pc = AfterCheckpoint(job.pc),
                         !.result = IF job.pc = "chk4" THEN job.ret ELSE @]
            /\ hist' = hist
  /\ UNCHANGED <<cancelled_, progress_, progressCallback_, delivered, wk, regVars, xrVars, pk, newVars>>

\* std::vector<float> audioData = decodeAudioData(config);
JobDecode ==
  /\ job.pc = "decode"
  /\ \/ /\ \E n \in DecodedSizes :
             job' = [job EXCEPT !.pc = "chk2", !.samples = n]
          /\ hist' = hist
     \/ /\ job' = [job EXCEPT !.pc = "catch"]
        /\ hist' = [hist EXCEPT !.raised = TRUE]
  /\ UNCHANGED <<cancelled_, progress_, progressCallback_, delivered, wk, regVars, xrVars, pk, newVars>>

JobCatch_KeepProgress ==
  /\ job.pc = "catch"
  /\ job' = [job EXCEPT !.pc = "resolved", !.result = "error"]
  /\ UNCHANGED <<cancelled_, progress_, progressCallback_, delivered, wk, hist, regVars, xrVars, pk, newVars>>

\* catch (const std::exception&) { progress_.store(0.0); throw; }
JobCatch ==
  /\ job.pc = "catch"
  /\ progress_' = Zero
  /\ job' = [job EXCEPT !.pc = "resolved", !.result = "error"]
  /\ UNCHANGED <<cancelled_, progressCallback_, delivered, wk, hist, regVars, xrVars, pk, newVars>>

\* waveform = normalizeWaveform(waveform, scale, threshold);
JobNormalize ==
  /\ job.pc = "norm"
  /\ job' = [job EXCEPT !.pc = "chk4"]
  /\ UNCHANGED <<cancelled_, progress_, progressCallback_, delivered, wk, hist, regVars, xrVars, pk, newVars>>

\* ---- WaveformProcessor::processWaveform ----

LoopPc(pos, last) ==
  IF pos >= last THEN "done"
  ELSE IF PollDue(pos) THEN "poll" ELSE "compute"

NoWorkers == [t \in Workers |-> IdleWorker]

StartWorker(first, last) ==
  [pc |-> LoopPc(first, last), pos |-> first, first |-> first,
   last |-> last, rep |-> 0]

AfterProcess == IF job.direct THEN "returned" ELSE "chk3"

\* return {} / return result: the loops are over and their locals are gone
Returns(ret, seen) ==
  /\ job' = [job EXCEPT !.pc = AfterProcess, !.ret = ret, !.samples = 0,
                        !.half = "store"]
  /\ wk' = NoWorkers
  /\ hist' = [hist EXCEPT
       !.observed = @ \/ seen,
       !.armed = FALSE,
       !.whole = (ret = "envelope") =>
                   \A t \in Workers : wk[t].pos = wk[t].last]

\* entry of processWaveform up to the start of the loops
EnterProcessWaveform(samples, spp, ch, hw, report, direct) ==
  LET bad == samples = 0 \/ spp <= 0 \/ ch <= 0
      numPixels == IF bad THEN 0 ELSE NumPixels(samples, spp, ch)
      n == NumThreads(hw, numPixels)
      j == [job EXCEPT !.direct = direct, !.report = report,
                       !.numPixels = numPixels, !.numThreads = n,
                       !.samples = samples]
  IN IF numPixels = 0
       THEN /\ job' = [j EXCEPT !.ret = "empty", !.samples = 0,
                         !.pc = IF direct THEN "returned" ELSE "chk3"]
            /\ wk' = NoWorkers
            /\ hist' = [hist EXCEPT !.armed = FALSE, !.further = 0]
       ELSE /\ job' = [j EXCEPT !.pc = "loops"]
            /\ wk' = IF n <= 1
                       THEN [t \in Workers |->
                               IF t = 0 THEN StartWorker(0, numPixels)
                               ELSE IdleWorker]
                       ELSE [t \in Workers |->
                               IF t < n
                                 THEN StartWorker(StartPixel(t, numPixels, n),
                                                  EndPixel(t, numPixels, n))
                                 ELSE IdleWorker]
            /\ hist' = [hist EXCEPT !.armed = FALSE, !.further = 0]

\* auto waveform = processWaveform(audioData, samplesPerPixel, numChannels);
JobProcess ==
  /\ job.pc = "proc"
  /\ \E hw \in HardwareConcurrency :
       EnterProcessWaveform(job.samples, DefaultSamplesPerPixel,
                            DefaultNumChannels, hw, TRUE, FALSE)
  /\ UNCHANGED <<cancelled_, progress_, progressCallback_, delivered, regVars, xrVars, pk, newVars>>

\* processWaveform raises before its loops start: the allocation of result
\* fails with std::bad_alloc
JobProcessRaises ==
  /\ job.pc = "proc"
  /\ job' = [job EXCEPT !.pc = "catch", !.samples = 0]
  /\ hist' = [hist EXCEPT !.raised = TRUE]
  /\ UNCHANGED <<cancelled_, progress_, progressCallback_, delivered, wk, regVars, xrVars, pk, newVars>>

\* a direct call of WaveformProcessor::processWaveform with an empty
\* progress callback and the flag of the handle
DirectCall ==
  /\ job.pc = "idle"
  /\ \E samples \in DirectSizes, spp \in {0, 1}, hw \in HardwareConcurrency :
       EnterProcessWaveform(samples, spp, 1, hw, FALSE, TRUE)
  /\ UNCHANGED <<cancelled_, progress_, progressCallback_, delivered, regVars, xrVars, pk, newVars>>

Single == job.numThreads <= 1

\* if (pixel % 100 == 0 && isCancelled()) return {};  (a worker: return;)
WPoll(t) ==
  /\ job.pc = "loops"
  /\ wk[t].pc = "poll"
  /\ IF cancelled_
       THEN IF Single
              THEN Returns("empty", TRUE)
              ELSE /\ wk' = [wk EXCEPT ![t].pc = "stopped"]
                   /\ UNCHANGED <<job, hist>>
       ELSE /\ wk' = [wk EXCEPT ![t].pc = "compute"]
            /\ UNCHANGED <<job, hist>>
  /\ UNCHANGED <<cancelled_, progress_, progressCallback_, delivered, regVars, xrVars, pk, newVars>>

\* the bucket of every channel is computed; in a worker
\* processed = pixelsProcessed.fetch_add(1) + 1; then the report test
WCompute(t) ==
  /\ job.pc = "loops"
  /\ wk[t].pc = "compute"
  /\ LET pixel == wk[t].pos
         processed == PixelsProcessed + 1
         due == IF Single THEN ReportDueSingle(pixel, job.numPixels)
                ELSE ReportDueMulti(processed, job.numPixels)
         rep == IF Single THEN pixel + 1 ELSE processed
     IN wk' = [wk EXCEPT
          ![t].pos = pixel + 1,
          ![t].rep = IF job.report /\ due THEN rep ELSE 0,
          ![t].pc = IF job.report /\ due THEN "store"
                    ELSE LoopPc(pixel + 1, wk[t].last)]
  /\ hist' = [hist EXCEPT
       !.further = IF hist.armed THEN Min(@ + 1, FurtherCap) ELSE @]
  /\ UNCHANGED <<cancelled_, progress_, progressCallback_, delivered, job, regVars, xrVars, pk, newVars>>

\* reportProgress -> progressMapper -> updateProgress: progress_.store
WReportStore(t) ==
  /\ job.pc = "loops"
  /\ wk[t].pc = "store"
  /\ progress_' = Clamp(Mapped(wk[t].rep, job.numPixels))
  /\ wk' = [wk EXCEPT ![t].pc = "call"]
  /\ UNCHANGED <<cancelled_, progressCallback_, delivered, job, hist, regVars, xrVars, pk, newVars>>

\* ... then invokeProgressCallback(progress) under callbackMutex_
WReportCall(t) ==
  /\ job.pc = "loops"
  /\ wk[t].pc = "call"
  /\ delivered' = IF progressCallback_
                    THEN <<Clamp(Mapped(wk[t].rep, job.numPixels))>>
                    ELSE delivered
  /\ wk' = [wk EXCEPT ![t].rep = 0,
                      ![t].pc = LoopPc(wk[t].pos, wk[t].last)]
  /\ UNCHANGED <<cancelled_, progress_, progressCallback_, job, hist, regVars, xrVars, pk, newVars>>

AfterLoops == IF job.report THEN "final" ELSE "procret"

\* the single-threaded loop has run to its end
SingleLoopEnd ==
  /\ job.pc = "loops"
  /\ Single
  /\ wk[0].pc = "done"
  /\ job' = [job EXCEPT !.pc = AfterLoops]
  /\ UNCHANGED <<cancelled_, progress_, progressCallback_, delivered, wk, hist, regVars, xrVars, pk, newVars>>

\* every future.wait() has returned; if (isCancelled()) return {};
JoinWorkers ==
  /\ job.pc = "loops"
  /\ ~Single
  /\ \A t \in Workers : wk[t].pc \in {"off", "done", "stopped"}
  /\ IF cancelled_
       THEN Returns("empty", TRUE)
       ELSE /\ job' = [job EXCEPT !.pc = AfterLoops]
            /\ UNCHANGED <<wk, hist>>
  /\ UNCHANGED <<cancelled_, progress_, progressCallback_, delivered, regVars, xrVars, pk, newVars>>

\* return result;
ProcReturn ==
  /\ job.pc = "procret"
  /\ Returns("envelope", FALSE)
  /\ UNCHANGED <<cancelled_, progress_, progressCallback_, delivered, regVars, xrVars, pk, newVars>>

(***************************************************************************)
(* Part III.  The extractor map of the instance registry                   *)
(***************************************************************************)

\* the keys the callers of the extractor map use
XKeys == {1, 2}

IdleCaller ==
  [pc |-> "idle", op |-> "none", key |-> 0, out |-> "none", h |-> 0,
   snap |-> EmptyMap, left |-> {}, cur |-> 0, invoked |-> {}]

XLockFree == extractorsMutex_ = {}

\* ---- createExtractor ----

CallCreateExtractor(t, k) ==
  /\ xthr[t].pc = "idle"
  /\ nextExtractor <= MaxHandles
  /\ xthr' = [xthr EXCEPT ![t] = [IdleCaller EXCEPT !.pc = "ce_lock",
                                    !.op = "createExtractor", !.key = k]]
  /\ UNCHANGED <<extractors_, extractorsMutex_, flagged, nextExtractor,
                 regVars, extVars, pk, newVars>>

\* std::lock_guard<std::mutex> lock(extractorsMutex_);
CeLock(t) ==
  /\ xthr[t].pc = "ce_lock"
  /\ XLockFree
  /\ extractorsMutex_' = {t}
  /\ xthr' = [xthr EXCEPT ![t].pc = "ce_find", ![t].snap = extractors_]
  /\ UNCHANGED <<extractors_, flagged, nextExtractor, regVars, extVars, pk, newVars>>

CeFind_Capped(t) ==
  /\ xthr[t].pc = "ce_find"
  /\ xthr' = IF HasKey(extractors_, xthr[t].key)
               THEN [xthr EXCEPT ![t].pc = "unlock", ![t].out = "duplicate"]
               ELSE IF CapacityReached(MapSize(extractors_))
                    THEN [xthr EXCEPT ![t].pc = "unlock", ![t].out = "capacity"]
                    ELSE [xthr EXCEPT ![t].pc = "ce_create"]
  /\ UNCHANGED <<extractors_, extractorsMutex_, flagged, nextExtractor,
                 regVars, extVars, pk, newVars>>

\* if (extractors_.find(key) != extractors_.end()) throw ...
CeFind(t) ==
  /\ xthr[t].pc = "ce_find"
  /\ xthr' = IF HasKey(extractors_, xthr[t].key)
               THEN [xthr EXCEPT ![t].pc = "unlock", ![t].out = "duplicate"]
               ELSE [xthr EXCEPT ![t].pc = "ce_create"]
  /\ UNCHANGED <<extractors_, extractorsMutex_, flagged, nextExtractor,
                 regVars, extVars, pk, newVars>>

\* auto extractor = createPlatformExtractor(key); if (!extractor) throw ...
CeCreate(t) ==
  /\ xthr[t].pc = "ce_create"
  /\ \/ /\ xthr' = [xthr EXCEPT ![t].pc = "unlock", ![t].out = "noinstance"]
        /\ UNCHANGED nextExtractor
     \/ /\ xthr' = [xthr EXCEPT ![t].pc = "ce_store", ![t].h = nextExtractor]
        /\ nextExtractor' = nextExtractor + 1
  /\ UNCHANGED <<extractors_, extractorsMutex_, flagged, regVars, extVars, pk, newVars>>

\* extractors_[key] = extractor; return extractor;
CeStore(t) ==
  /\ xthr[t].pc = "ce_store"
  /\ extractors_' = MapPut(extractors_, xthr[t].key, xthr[t].h)
  /\ xthr' = [xthr EXCEPT ![t].pc = "unlock", ![t].out = "ok"]
  /\ UNCHANGED <<extractorsMutex_, flagged, nextExtractor, regVars, extVars, pk, newVars>>

\* ---- removeExtractor ----

CallRemoveExtractor(t, k) ==
  /\ xthr[t].pc = "idle"
  /\ xthr' = [xthr EXCEPT ![t] = [IdleCaller EXCEPT !.pc = "re_lock",
                                    !.op = "removeExtractor", !.key = k]]
  /\ UNCHANGED <<extractors_, extractorsMutex_, flagged, nextExtractor,
                 regVars, extVars, pk, newVars>>

ReLock(t) ==
  /\ xthr[t].pc = "re_lock"
  /\ XLockFree
  /\ extractorsMutex_' = {t}
  /\ xthr' = [xthr EXCEPT ![t].pc = "re_find", ![t].snap = extractors_]
  /\ UNCHANGED <<extractors_, flagged, nextExtractor, regVars, extVars, pk, newVars>>

\* auto it = extractors_.find(key); erase and return true, or return false
ReFind(t) ==
  /\ xthr[t].pc = "re_find"
  /\ IF HasKey(extractors_, xthr[t].key)
       THEN /\ extractors_' = MapErase(extractors_, xthr[t].key)
            /\ xthr' = [xthr EXCEPT ![t].pc = "unlock", ![t].out = "true"]
       ELSE /\ extractors_' = extractors_
            /\ xthr' = [xthr EXCEPT ![t].pc = "unlock", ![t].out = "false"]
  /\ UNCHANGED <<extractorsMutex_, flagged, nextExtractor, regVars, extVars, pk, newVars>>

\* ---- stopAllExtractors ----

CallStopAllExtractors(t) ==
  /\ xthr[t].pc = "idle"
  /\ xthr' = [xthr EXCEPT ![t] = [IdleCaller EXCEPT !.pc = "xs_lock",
                                    !.op = "stopAllExtractors"]]
  /\ UNCHANGED <<extractors_, extractorsMutex_, flagged, nextExtractor,
                 regVars, extVars, pk, newVars>>

\* the task started by std::async takes the lock
XsLock(t) ==
  /\ xthr[t].pc = "xs_lock"
  /\ XLockFree
  /\ extractorsMutex_' = {t}
  /\ xthr' = [xthr EXCEPT ![t].pc = "xs_loop", ![t].snap = extractors_,
                          ![t].left = DOMAIN extractors_]
  /\ UNCHANGED <<extractors_, flagged, nextExtractor, regVars, extVars, pk, newVars>>

\* for (auto& pair : extractors_): the next entry, or the end of the loop
XsLoop(t) ==
  /\ xthr[t].pc = "xs_loop"
  /\ IF xthr[t].left = {}
       THEN xthr' = [xthr EXCEPT ![t].pc = "xs_clear"]
       ELSE LET k == CHOOSE k \in xthr[t].left : \A j \in xthr[t].left : k <= j
            IN xthr' = [xthr EXCEPT ![t].pc = "xs_cancel",
                                    ![t].cur = extractors_[k],
                                    ![t].left = @ \ {k}]
  /\ UNCHANGED <<extractors_, extractorsMutex_, flagged, nextExtractor,
                 regVars, extVars, pk, newVars>>

XsCancel_Skip(t) ==
  /\ xthr[t].pc = "xs_cancel"
  /\ xthr' = [xthr EXCEPT ![t].pc = "xs_loop"]
  /\ UNCHANGED <<extractors_, extractorsMutex_, flagged, nextExtractor,
                 regVars, extVars, pk, newVars>>

\* if (extractor) extractor->cancel();  cancel() is cancelled_.store(true)
\* and raises nothing, so the catch clause is never entered
XsCancel(t) ==
  /\ xthr[t].pc = "xs_cancel"
  /\ flagged' = flagged \cup {xthr[t].cur}
  /\ xthr' = [xthr EXCEPT ![t].pc = "xs_loop",
                          ![t].invoked = @ \cup {xthr[t].cur}]
  /\ UNCHANGED <<extractors_, extractorsMutex_, nextExtractor, regVars, extVars, pk, newVars>>

\* extractors_.clear(); return true;
XsClear(t) ==
  /\ xthr[t].pc = "xs_clear"
  /\ extractors_' = EmptyMap
  /\ xthr' = [xthr EXCEPT ![t].pc = "unlock", ![t].out = "true"]
  /\ UNCHANGED <<extractorsMutex_, flagged, nextExtractor, regVars, extVars, pk, newVars>>

\* ---- leaving a call on the extractor map ----

\* ~lock_guard(): extractorsMutex_ is released when the body is left
XUnlock(t) ==
  /\ xthr[t].pc = "unlock"
  /\ extractorsMutex_' = extractorsMutex_ \ {t}
  /\ xthr' = [xthr EXCEPT ![t].pc = "ret"]
  /\ UNCHANGED <<extractors_, flagged, nextExtractor, regVars, extVars, pk, newVars>>

\* the call returns (the future becomes ready) and the caller goes on
XReturn(t) ==
  /\ xthr[t].pc = "ret"
  /\ xthr' = [xthr EXCEPT ![t] = IdleCaller]
  /\ UNCHANGED <<extractors_, extractorsMutex_, flagged, nextExtractor,
                 regVars, extVars, pk, newVars>>

\* a new extract() on an extractor the caller holds: resetCancellation()
ExtractorRestart(e) ==
  /\ e \in 1..(nextExtractor - 1)
  /\ e \in flagged
  /\ flagged' = flagged \ {e}
  /\ UNCHANGED <<extractors_, extractorsMutex_, xthr, nextExtractor,
                 regVars, extVars, pk, newVars>>

(***************************************************************************)
(* Part IV.  processWaveform on concrete samples                           *)
(***************************************************************************)

\* Bound: the longest buffer handed to processWaveform.
MaxSamples == 9

\* sample values, in units in which 1 is full scale: PCM is within [-1, +1]
Samples == {-1, 0}
SppValues == {-1, 0, 1, 2, 4}
ChValues == {-1, 0, 1, 2}

\* the builds of findMaxAbs: a four-lane one (HAS_NEON or HAS_SSE2), or scalar
Builds == {"vector", "scalar"}

\* std::abs
Abs(x) == IF x < 0 THEN -x ELSE x

\* audioData[i], i counted from 0
At(data, i) == data[i + 1]

\* for (i = from; i < to; i += step) m = std::max(m, std::abs(data[i]));
RECURSIVE ScalarLoop(_, _, _, _, _)
ScalarLoop(data, from, to, step, m) ==
  IF from < to
    THEN ScalarLoop(data, from + step, to, step, Max(m, Abs(At(data, from))))
    ELSE m

\* findMaxAbsScalar(data + first, count)
FindMaxAbsScalar(data, first, count) ==
  ScalarLoop(data, first, first + count, 1, 0)

\* the loop over whole groups of four: lane l of maxVec after the groups
\* starting at i, i + 4, ...
RECURSIVE LaneLoop(_, _, _, _, _, _)
LaneLoop(data, first, i, count, l, m) ==
  IF i + 4 <= count
    THEN LaneLoop(data, first, i + 4, count, l,
                  Max(m, Abs(At(data, first + i + l))))
    ELSE m

FindMaxAbsVector_NoTail(data, first, count) ==
  IF count = 0 THEN 0
  ELSE LET lane(l) == LaneLoop(data, first, 0, count, l, 0)
       IN Max(Max(lane(0), lane(1)), Max(lane(2), lane(3)))

\* findMaxAbsNeon / findMaxAbsSSE2: four lanes, their reduction, then the
\* remaining count % 4 elements
FindMaxAbsVector(data, first, count) ==
  IF count = 0 THEN 0
  ELSE LET lane(l) == LaneLoop(data, first, 0, count, l, 0)
           whole == 4 * (count \div 4)
           maxVal == Max(Max(lane(0), lane(1)), Max(lane(2), lane(3)))
       IN ScalarLoop(data, first + whole, first + count, 1, maxVal)

\* findMaxAbs: the implementation the build selects
FindMaxAbs(build, data, first, count) ==
  IF build = "scalar" THEN FindMaxAbsScalar(data, first, count)
  ELSE FindMaxAbsVector(data, first, count)

StartSample_NoChannel(pixel, spp, ch, channel) == pixel * spp * ch

\* startSample = pixel * samplesPerPixel * numChannels + channel
StartSample(pixel, spp, ch, channel) == pixel * spp * ch + channel

\* endSample = std::min(startSample + samplesPerPixel * numChannels, totalSamples)
EndSample(start, spp, ch, total) == Min(start + spp * ch, total)

\* result[channel][pixel] of the single-threaded loop
BucketSingle(data, spp, ch, pixel, channel) ==
  LET start == StartSample(pixel, spp, ch, channel)
  IN ScalarLoop(data, start, EndSample(start, spp, ch, Len(data)), ch, 0)

\* result[channel][pixel] of a worker: findMaxAbs on the contiguous range
\* for mono, the strided scalar loop otherwise
BucketWorker(build, data, spp, ch, pixel, channel) ==
  LET start == StartSample(pixel, spp, ch, channel)
      end == EndSample(start, spp, ch, Len(data))
  IN IF ch = 1 THEN FindMaxAbs(build, data, start, end - start)
     ELSE ScalarLoop(data, start, end, ch, 0)

\* std::vector<std::vector<float>> result(numChannels,
\*   std::vector<float>(numPixels, 0.0f));
ZeroEnvelope(ch, numPixels) == [c \in 1..ch |-> [b \in 1..numPixels |-> 0]]

EmptyEnvelope == << >>

\* the buffers of length n
Buffers(n) == [1..n -> Samples]

\* a call of processWaveform(audioData, samplesPerPixel, numChannels,
\* progressCallback, nullptr) with a non-empty progress callback, on a
\* machine with hw hardware threads, in one of the builds
PkCall(data, spp, ch, hw, build) ==
  [pc |-> "call", build |-> build, audioData |-> data, spp |-> spp,
   ch |-> ch, hw |-> hw, numPixels |-> 0, numThreads |-> 0,
   result |-> EmptyEnvelope, pos |-> [t \in Workers |-> 0],
   reported |-> FALSE, ret |-> "none"]

BadArgs(data, spp, ch) == Len(data) = 0 \/ spp <= 0 \/ ch <= 0

PkSingle == pk.numThreads <= 1
PkFirst(t) == IF PkSingle THEN 0 ELSE StartPixel(t, pk.numPixels, pk.numThreads)
PkLast(t) ==
  IF PkSingle THEN (IF t = 0 THEN pk.numPixels ELSE 0)
  ELSE IF t < pk.numThreads THEN EndPixel(t, pk.numPixels, pk.numThreads)
  ELSE PkFirst(t)

PkEnter_ReportFirst ==
  /\ pk.pc = "call"
  /\ pk' = [pk EXCEPT !.pc = "returned", !.ret = "empty", !.reported = TRUE]
  /\ UNCHANGED <<regVars, extVars, xrVars, newVars>>

\* the two early returns, the zeroed result, numThreads, the worker ranges
PkEnter ==
  /\ pk.pc = "call"
  /\ LET bad == BadArgs(pk.audioData, pk.spp, pk.ch)
         numPixels == IF bad THEN 0
                      ELSE NumPixels(Len(pk.audioData), pk.spp, pk.ch)
         n == NumThreads(pk.hw, numPixels)
     IN IF numPixels = 0
          THEN pk' = [pk EXCEPT !.pc = "returned", !.ret = "empty"]
          ELSE pk' = [pk EXCEPT
                 !.pc = "loops", !.numPixels = numPixels, !.numThreads = n,
                 !.result = ZeroEnvelope(pk.ch, numPixels),
                 !.pos = [t \in Workers |->
                            IF n <= 1 THEN 0 ELSE StartPixel(t, numPixels, n)]]
  /\ UNCHANGED <<regVars, extVars, xrVars, newVars>>

\* one iteration of the loop of worker t (of the single loop for t = 0):
\* the bucket of every channel, then the report test
PkCompute(t) ==
  /\ pk.pc = "loops"
  /\ pk.pos[t] < PkLast(t)
  /\ LET pixel == pk.pos[t]
         value(c) ==
           IF PkSingle
             THEN BucketSingle(pk.audioData, pk.spp, pk.ch, pixel, c)
             ELSE BucketWorker(pk.build, pk.audioData, pk.spp, pk.ch, pixel, c)
         processed ==
           pk.pos[0] - PkFirst(0) + pk.pos[1] - PkFirst(1) + 1
         due == IF PkSingle THEN ReportDueSingle(pixel, pk.numPixels)
                ELSE ReportDueMulti(processed, pk.numPixels)
     IN pk' = [pk EXCEPT
          !.result = [c \in 1..pk.ch |->
                        [pk.result[c] EXCEPT ![pixel + 1] = value(c - 1)]],
          !.pos[t] = pixel + 1,
          !.reported = @ \/ due]
  /\ UNCHANGED <<regVars, extVars, xrVars, newVars>>

\* the loops are over (the workers joined); reportProgress(numPixels);
\* return result;
PkFinish ==
  /\ pk.pc = "loops"
  /\ \A t \in Workers : pk.pos[t] >= PkLast(t)
  /\ pk' = [pk EXCEPT !.pc = "returned", !.ret = "envelope", !.reported = TRUE]
  /\ UNCHANGED <<regVars, extVars, xrVars, newVars>>

\* no call of this kind is under way
PeaksIdle == pk = PkCall(<< >>, 0, 0, 0, "scalar")

(***************************************************************************)
(* Part V.  The callback slots of a handle                                 *)
(*                                                                         *)
(* A playback handle has two slots guarded by one callbackMutex_; the      *)
(* capture handle and the extraction handle have one slot each with the    *)
(* same code, which is the case of a single slot here.  A callback body    *)
(* either returns or calls a slot operation of its own handle.             *)
(***************************************************************************)

Slots == {"playbackUpdate", "playbackFinished"}

\* the callbacks the callers install
CallbackIds == {1, 2}

SlotOps == {"set", "clear", "invoke", "has"}

IdleSlotUser ==
  [pc |-> "idle", op |-> "none", slot |-> "none", arg |-> 0,
   found |-> 0, run |-> 0, ran |-> 0, inner |-> "none", out |-> "none"]

\* playbackUpdateCallback_ and playbackFinishedCallback_ as constructed
EmptySlots == [s \in Slots |-> 0]

CbLockFree_NoExclusion(t) == TRUE

CbLockFree_Recursive(t) == callbackMutex_ \subseteq {t}

\* std::lock_guard<std::mutex> lock(callbackMutex_) can be taken by t: the
\* mutex is not recursive, no thread owns it, t included
CbLockFree(t) == callbackMutex_ = {}

\* setPlaybackUpdateCallback(callback) / setPlaybackFinishedCallback(callback)
CallSetCallback(t, s, c) ==
  /\ cth[t].pc = "idle"
  /\ cth' = [cth EXCEPT ![t] = [IdleSlotUser EXCEPT !.pc = "lock", !.op = "set",
                                                    !.slot = s, !.arg = c]]
  /\ UNCHANGED <<slots, callbackMutex_, oldVars, hdVars, tdVars, nz, pt>>

\* clearPlaybackUpdateCallback() / clearPlaybackFinishedCallback()
CallClearCallback(t, s) ==
  /\ cth[t].pc = "idle"
  /\ cth' = [cth EXCEPT ![t] = [IdleSlotUser EXCEPT !.pc = "lock", !.op = "clear",
                                                    !.slot = s]]
  /\ UNCHANGED <<slots, callbackMutex_, oldVars, hdVars, tdVars, nz, pt>>

\* invokePlaybackUpdateCallback(position) / invokePlaybackFinishedCallback()
CallInvokeCallback(t, s) ==
  /\ cth[t].pc = "idle"
  /\ cth' = [cth EXCEPT ![t] = [IdleSlotUser EXCEPT !.pc = "lock", !.op = "invoke",
                                                    !.slot = s]]
  /\ UNCHANGED <<slots, callbackMutex_, oldVars, hdVars, tdVars, nz, pt>>

\* hasPlaybackUpdateCallback() / hasPlaybackFinishedCallback()
CallHasCallback(t, s) ==
  /\ cth[t].pc = "idle"
  /\ cth' = [cth EXCEPT ![t] = [IdleSlotUser EXCEPT !.pc = "lock", !.op = "has",
                                                    !.slot = s]]
  /\ UNCHANGED <<slots, callbackMutex_, oldVars, hdVars, tdVars, nz, pt>>

\* std::lock_guard<std::mutex> lock(callbackMutex_): the first statement of
\* every slot operation, also of one called from inside a callback body
CbLock(t) ==
  /\ cth[t].pc \in {"lock", "inner_lock"}
  /\ CbLockFree(t)
  /\ callbackMutex_' = {t}
  /\ cth' = [cth EXCEPT ![t].pc = IF cth[t].pc = "lock" THEN "locked" ELSE "inner_locked"]
  /\ UNCHANGED <<slots, oldVars, hdVars, tdVars, nz, pt>>

\* playbackUpdateCallback_ = std::move(callback);
CbSetStore(t) ==
  /\ cth[t].pc = "locked" /\ cth[t].op = "set"
  /\ slots' = [slots EXCEPT ![cth[t].slot] = cth[t].arg]
  /\ cth' = [cth EXCEPT ![t].pc = "unlock"]
  /\ UNCHANGED <<callbackMutex_, oldVars, hdVars, tdVars, nz, pt>>

\* playbackUpdateCallback_ = nullptr;
CbClearStore(t) ==
  /\ cth[t].pc = "locked" /\ cth[t].op = "clear"
  /\ slots' = [slots EXCEPT ![cth[t].slot] = 0]
  /\ cth' = [cth EXCEPT ![t].pc = "unlock"]
  /\ UNCHANGED <<callbackMutex_, oldVars, hdVars, tdVars, nz, pt>>

\* return playbackUpdateCallback_ != nullptr;
CbHas(t) ==
  /\ cth[t].pc = "locked" /\ cth[t].op = "has"
  /\ cth' = [cth EXCEPT ![t].pc = "unlock",
                        ![t].out = IF slots[cth[t].slot] # 0 THEN "true" ELSE "false"]
  /\ UNCHANGED <<slots, callbackMutex_, oldVars, hdVars, tdVars, nz, pt>>

CbInvokeTest_Unlocked(t) ==
  /\ cth[t].pc = "locked" /\ cth[t].op = "invoke"
  /\ callbackMutex_' = callbackMutex_ \ {t}
  /\ cth' = IF slots[cth[t].slot] # 0
            THEN [cth EXCEPT ![t].pc = "running", ![t].found = slots[cth[t].slot],
                             ![t].run = slots[cth[t].slot]]
            ELSE [cth EXCEPT ![t].pc = "unlock"]
  /\ UNCHANGED <<slots, oldVars, hdVars, tdVars, nz, pt>>

\* if (playbackUpdateCallback_) { playbackUpdateCallback_(position); }
\* the test and the entry into the stored callback, the lock still held
CbInvokeTest(t) ==
  /\ cth[t].pc = "locked" /\ cth[t].op = "invoke"
  /\ cth' = IF slots[cth[t].slot] # 0
            THEN [cth EXCEPT ![t].pc = "running", ![t].found = slots[cth[t].slot],
                             ![t].run = slots[cth[t].slot]]
            ELSE [cth EXCEPT ![t].pc = "unlock"]
  /\ UNCHANGED <<slots, callbackMutex_, oldVars, hdVars, tdVars, nz, pt>>

\* the callback body returns to the invoke operation
CbBodyReturn(t) ==
  /\ cth[t].pc = "running"
  /\ cth' = [cth EXCEPT ![t].pc = "unlock", ![t].ran = cth[t].run, ![t].run = 0]
  /\ UNCHANGED <<slots, callbackMutex_, oldVars, hdVars, tdVars, nz, pt>>

\* the callback body calls a slot operation of the handle that invoked it
CbBodyReenter(t, op) ==
  /\ cth[t].pc = "running"
  /\ cth' = [cth EXCEPT ![t].pc = "inner_lock", ![t].inner = op]
  /\ UNCHANGED <<slots, callbackMutex_, oldVars, hdVars, tdVars, nz, pt>>

\* ~lock_guard(): callbackMutex_ is released when the operation is left
CbUnlock(t) ==
  /\ cth[t].pc = "unlock"
  /\ callbackMutex_' = callbackMutex_ \ {t}
  /\ cth' = [cth EXCEPT ![t].pc = "returned"]
  /\ UNCHANGED <<slots, oldVars, hdVars, tdVars, nz, pt>>

\* the caller goes on after the operation has returned
CbForget(t) ==
  /\ cth[t].pc = "returned"
  /\ cth' = [cth EXCEPT ![t] = IdleSlotUser]
  /\ UNCHANGED <<slots, callbackMutex_, oldVars, hdVars, tdVars, nz, pt>>

CallbacksIdle ==
  /\ slots = EmptySlots
  /\ callbackMutex_ = {}
  /\ cth = [t \in RThreads |-> IdleSlotUser]

(***************************************************************************)
(* Part VI.  The state of a playback handle and of a capture handle        *)
(***************************************************************************)

\* enum class PlayerState
PlayerStates == {"Idle", "Prepared", "Playing", "Paused", "Stopped"}

IdlePlayerUser ==
  [pc |-> "idle", op |-> "none", before |-> "none", after |-> "none", out |-> "none"]

\* thread t has completed operation op, which found state_ = state_ and left
\* the handle in state to
Completed(t, op, to, out) ==
  pth' = [pth EXCEPT ![t] = [pc |-> "returned", op |-> op, before |-> state_,
                             after |-> to, out |-> out]]

\* setState(newState): state_.store(newState), any newState from any state
SetState(t, newState) ==
  /\ pth[t].pc = "idle"
  /\ state_' = newState
  /\ Completed(t, "setState", newState, "void")
  /\ UNCHANGED <<isRecording_, isPaused_, rec, oldVars, cbVars, tdVars, nz, pt>>

\* getState(): state_.load()
GetState(t) ==
  /\ pth[t].pc = "idle"
  /\ Completed(t, "getState", state_, state_)
  /\ UNCHANGED <<state_, isRecording_, isPaused_, rec, oldVars, cbVars, tdVars, nz, pt>>

\* isPrepared(): state_.load() != PlayerState::Idle
IsPrepared(t) ==
  /\ pth[t].pc = "idle"
  /\ Completed(t, "isPrepared", state_, IF state_ # "Idle" THEN "true" ELSE "false")
  /\ UNCHANGED <<state_, isRecording_, isPaused_, rec, oldVars, cbVars, tdVars, nz, pt>>

\* an operation of the platform player: it moves the handle to state to when
\* it finds it in one of the states from, and fails otherwise
PlatformPlayerOp(t, op, from, to) ==
  /\ pth[t].pc = "idle"
  /\ IF state_ \in from
     THEN state_' = to /\ Completed(t, op, to, "true")
     ELSE state_' = state_ /\ Completed(t, op, state_, "false")
  /\ UNCHANGED <<isRecording_, isPaused_, rec, oldVars, cbVars, tdVars, nz, pt>>

\* prepare(config): Idle -> Prepared
Prepare(t) == PlatformPlayerOp(t, "prepare", {"Idle"}, "Prepared")

\* start(finishMode, speed): Prepared, Paused or Stopped -> Playing
Start(t) == PlatformPlayerOp(t, "start", {"Prepared", "Paused", "Stopped"}, "Playing")

\* pause(): Playing -> Paused
Pause(t) == PlatformPlayerOp(t, "pause", {"Playing"}, "Paused")

\* stop(): Playing or Paused -> Stopped
Stop(t) == PlatformPlayerOp(t, "stop", {"Playing", "Paused"}, "Stopped")

\* the caller goes on after the operation has returned
PlayerForget(t) ==
  /\ pth[t].pc = "returned"
  /\ pth' = [pth EXCEPT ![t] = IdlePlayerUser]
  /\ UNCHANGED <<state_, isRecording_, isPaused_, rec, oldVars, cbVars, tdVars, nz, pt>>

\* ---- the capture handle ----

RecorderFlags_PausedSet == [recording |-> FALSE, paused |-> TRUE]

\* std::atomic<bool> isRecording_{false}; std::atomic<bool> isPaused_{false};
RecorderFlagsAsConstructed == [recording |-> FALSE, paused |-> FALSE]

\* startRecording(config): idle -> recording
StartRecording ==
  /\ rec = "idle"
  /\ ~isRecording_ /\ ~isPaused_
  /\ isRecording_' = TRUE
  /\ UNCHANGED <<isPaused_, rec, state_, pth, oldVars, cbVars, tdVars, nz, pt>>

\* pauseRecording(): recording -> paused
PauseRecording ==
  /\ rec = "idle"
  /\ isRecording_ /\ ~isPaused_
  /\ isPaused_' = TRUE
  /\ UNCHANGED <<isRecording_, rec, state_, pth, oldVars, cbVars, tdVars, nz, pt>>

\* resumeRecording(): paused -> recording
ResumeRecording ==
  /\ rec = "idle"
  /\ isRecording_ /\ isPaused_
  /\ isPaused_' = FALSE
  /\ UNCHANGED <<isRecording_, rec, state_, pth, oldVars, cbVars, tdVars, nz, pt>>

\* stopRecording(): recording or paused -> idle.  The two flags are two
\* atomics, written one after the other: the paused flag first
StopRecording ==
  /\ rec = "idle"
  /\ isRecording_
  /\ IF isPaused_
     THEN isPaused_' = FALSE /\ rec' = "stopping" /\ UNCHANGED isRecording_
     ELSE isRecording_' = FALSE /\ UNCHANGED <<isPaused_, rec>>
  /\ UNCHANGED <<state_, pth, oldVars, cbVars, tdVars, nz, pt>>

\* the second write of stopRecording()
StopRecordingFinish ==
  /\ rec = "stopping"
  /\ isRecording_' = FALSE
  /\ isPaused_' = FALSE
  /\ rec' = "idle"
  /\ UNCHANGED <<state_, pth, oldVars, cbVars, tdVars, nz, pt>>

StatesIdle ==
  /\ state_ = "Idle"
  /\ pth = [t \in RThreads |-> IdlePlayerUser]
  /\ isRecording_ = RecorderFlagsAsConstructed.recording
  /\ isPaused_ = RecorderFlagsAsConstructed.paused
  /\ rec = "idle"

(***************************************************************************)
(* Part VII.  Teardown of the registry                                     *)
(***************************************************************************)

\* the destructor has not been entered
RegistryAlive ==
  [pc |-> "alive", left |-> {}, cur |-> 0, swept |-> {}, asked |-> {}, stopped |-> {},
   failedOn |-> {}, found |-> {}, cancelInvoked |-> {}, escaped |-> FALSE]

\* what the sweep of the players leaves alone
TdPlayersFrame ==
  <<thr, playing, nextHandle, extVars, xrVars, pk, cbVars, hdVars, nz, pt, recorderInstance_>>

\* what the sweep of the extractors leaves alone
TdExtractorsFrame ==
  <<regVars, extVars, xthr, nextExtractor, pk, cbVars, hdVars, nz, pt, recorderInstance_>>

\* ~AudioWaveformFactoryImpl() calls cleanupAllInstances(); no other thread
\* is inside the registry when it is destroyed
TdBegin ==
  /\ td.pc = "alive"
  /\ \A t \in RThreads : thr[t].pc = "idle" /\ xthr[t].pc = "idle"
  /\ td' = [td EXCEPT !.pc = "p_lock"]
  /\ UNCHANGED <<players_, playersMutex_, TdPlayersFrame>>

\* std::lock_guard<std::mutex> lock(playersMutex_);
TdPlayersLock ==
  /\ td.pc = "p_lock"
  /\ LockFree
  /\ playersMutex_' = {0}
  /\ td' = [td EXCEPT !.pc = "p_loop", !.left = DOMAIN players_,
                      !.swept = MapHandles(players_)]
  /\ UNCHANGED <<players_, TdPlayersFrame>>

\* for (auto& pair : players_): the next entry, or the end of the loop
TdPlayersLoop ==
  /\ td.pc = "p_loop"
  /\ IF td.left = {}
     THEN td' = [td EXCEPT !.pc = "p_clear"]
     ELSE LET k == CHOOSE k \in td.left : \A j \in td.left : k <= j
          IN td' = [td EXCEPT !.pc = "p_test", !.cur = players_[k], !.left = @ \ {k}]
  /\ UNCHANGED <<players_, playersMutex_, TdPlayersFrame>>

\* if (player && player->isPlaying()): the answer of the platform player, or
\* an error, which catch (...) swallows
TdIsPlaying ==
  /\ td.pc = "p_test"
  /\ \/ td' = IF td.cur \in playing
              THEN [td EXCEPT !.pc = "p_stop", !.asked = @ \cup {td.cur}]
              ELSE [td EXCEPT !.pc = "p_loop"]
     \/ td' = [td EXCEPT !.pc = "p_loop", !.failedOn = @ \cup {td.cur}]
  /\ UNCHANGED <<players_, playersMutex_, TdPlayersFrame>>

TdPlayerStop_NoCatch ==
  /\ td.pc = "p_stop"
  /\ \/ td' = [td EXCEPT !.pc = "p_loop", !.stopped = @ \cup {td.cur}]
     \/ td' = [td EXCEPT !.pc = "escaped", !.stopped = @ \cup {td.cur},
                         !.failedOn = @ \cup {td.cur}, !.escaped = TRUE]
  /\ UNCHANGED <<players_, playersMutex_, TdPlayersFrame>>

\* player->stop(); the promise is dropped; an error is swallowed by catch (...)
TdPlayerStop ==
  /\ td.pc = "p_stop"
  /\ \/ td' = [td EXCEPT !.pc = "p_loop", !.stopped = @ \cup {td.cur}]
     \/ td' = [td EXCEPT !.pc = "p_loop", !.stopped = @ \cup {td.cur},
                         !.failedOn = @ \cup {td.cur}]
  /\ UNCHANGED <<players_, playersMutex_, TdPlayersFrame>>

\* players_.clear(); and the end of the locked scope
TdPlayersClear ==
  /\ td.pc = "p_clear"
  /\ players_' = ClearedMap(players_)
  /\ playersMutex_' = {}
  /\ td' = [td EXCEPT !.pc = "x_lock"]
  /\ UNCHANGED TdPlayersFrame

\* std::lock_guard<std::mutex> lock(extractorsMutex_);
TdExtractorsLock ==
  /\ td.pc = "x_lock"
  /\ XLockFree
  /\ extractorsMutex_' = {0}
  /\ td' = [td EXCEPT !.pc = "x_loop", !.left = DOMAIN extractors_,
                      !.found = MapHandles(extractors_)]
  /\ UNCHANGED <<extractors_, flagged, TdExtractorsFrame>>

\* for (auto& pair : extractors_): the next entry, or the end of the loop
TdExtractorsLoop ==
  /\ td.pc = "x_loop"
  /\ IF td.left = {}
     THEN td' = [td EXCEPT !.pc = "x_clear"]
     ELSE LET k == CHOOSE k \in td.left : \A j \in td.left : k <= j
          IN td' = [td EXCEPT !.pc = "x_cancel", !.cur = extractors_[k], !.left = @ \ {k}]
  /\ UNCHANGED <<extractors_, extractorsMutex_, flagged, TdExtractorsFrame>>

\* if (extractor) extractor->cancel();  cancel() is cancelled_.store(true)
TdExtractorCancel ==
  /\ td.pc = "x_cancel"
  /\ flagged' = flagged \cup {td.cur}
  /\ td' = [td EXCEPT !.pc = "x_loop", !.cancelInvoked = @ \cup {td.cur}]
  /\ UNCHANGED <<extractors_, extractorsMutex_, TdExtractorsFrame>>

\* extractors_.clear(); and the end of the locked scope
TdExtractorsClear ==
  /\ td.pc = "x_clear"
  /\ extractors_' = EmptyMap
  /\ extractorsMutex_' = {}
  /\ td' = [td EXCEPT !.pc = "r_reset"]
  /\ UNCHANGED <<flagged, TdExtractorsFrame>>

\* std::lock_guard<std::mutex> lock(recorderMutex_); recorderInstance_.reset();
TdRecorderReset ==
  /\ td.pc = "r_reset"
  /\ recorderInstance_' = "empty"
  /\ td' = [td EXCEPT !.pc = "done"]
  /\ UNCHANGED <<oldVars, cbVars, hdVars, nz, pt>>

TeardownIdle ==
  /\ recorderInstance_ = "empty"
  /\ td = RegistryAlive

(***************************************************************************)
(* Part VIII.  normalizeWaveform on concrete values                        *)
(***************************************************************************)

(* Samples, scale and threshold are floats in the source; here they are   *)
(* integers and a result is the exact fraction <<numerator, denominator>>  *)
(* with a positive denominator.  IEEE division and multiplication round    *)
(* monotonically, so |sample / maxAmplitude| <= 1 and the bounds below     *)
(* hold for the rounded values as well; NaN and infinities are not inputs. *)

SampleValues == {-2, 0, 1}
ScaleValues == {-1, 0, 2}
ThresholdValues == {0, 1, 2, 3}
ChannelLengths == {0, 1, 2}
ChannelCounts == {0, 1, 2}

NzChannels == UNION {[1..n -> SampleValues] : n \in ChannelLengths}
NzInputs == UNION {[1..c -> NzChannels] : c \in ChannelCounts}

RECURSIVE MaxAmplitudeFrom(_, _, _, _)
\* for (float sample : channelData)
\*   if (std::abs(sample) >= threshold) maxAmplitude = std::max(maxAmplitude, std::abs(sample));
MaxAmplitudeFrom(channelData, i, threshold, maxAmplitude) ==
  IF i > Len(channelData) THEN maxAmplitude
  ELSE LET sample == channelData[i]
       IN MaxAmplitudeFrom(channelData, i + 1, threshold,
            IF Abs(sample) >= threshold /\ Abs(sample) > maxAmplitude
            THEN Abs(sample) ELSE maxAmplitude)

MaxAmplitude_OfAllChannels(channelData, threshold) ==
  LET all == {MaxAmplitudeFrom(nz.data[c], 1, threshold, 0) : c \in 1..Len(nz.data)}
  IN CHOOSE m \in all : \A n \in all : n <= m

\* float maxAmplitude = 0.0f; and the loop over the channel
MaxAmplitude(channelData, threshold) ==
  MaxAmplitudeFrom(channelData, 1, threshold, 0)

NormalizedSample_NoThreshold(sample, maxAmplitude, scale, threshold) ==
  Frac(sample * scale, maxAmplitude)

\* if (std::abs(sample) < threshold) push_back(0.0f)
\* else push_back((sample / maxAmplitude) * scale)
NormalizedSample(sample, maxAmplitude, scale, threshold) ==
  IF Abs(sample) < threshold THEN Zero
  ELSE Frac(sample * scale, maxAmplitude)

\* the body of for (const auto& channelData : data)
NormalizeChannel(channelData, scale, threshold) ==
  IF channelData = << >> THEN << >>
  ELSE LET maxAmplitude == MaxAmplitude(channelData, threshold)
       IN IF maxAmplitude > 0
          THEN [i \in 1..Len(channelData) |->
                  NormalizedSample(channelData[i], maxAmplitude, scale, threshold)]
          ELSE [i \in 1..Len(channelData) |-> Zero]

RECURSIVE NormalizeFrom(_, _, _, _, _)
\* normalized.push_back(...) for each channel in turn
NormalizeFrom(data, c, scale, threshold, normalized) ==
  IF c > Len(data) THEN normalized
  ELSE NormalizeFrom(data, c + 1, scale, threshold,
         Append(normalized, NormalizeChannel(data[c], scale, threshold)))

\* WaveformProcessor::normalizeWaveform(data, scale, threshold)
normalizeWaveform(data, scale, threshold) ==
  IF data = << >> THEN << >>
  ELSE NormalizeFrom(data, 1, scale, threshold, << >>)

\* no call of normalizeWaveform has been made
NoNormalization ==
  [pc |-> "none", data |-> << >>, scale |-> 0, threshold |-> 0,
   out |-> << >>, prev |-> << >>]

NzFrame == <<oldVars, cbVars, hdVars, tdVars, pt>>

\* the call returns its result
NzReturn ==
  /\ nz.pc = "called"
  /\ nz' = [nz EXCEPT !.pc = "returned",
                      !.out = normalizeWaveform(nz.data, nz.scale, nz.threshold)]
  /\ UNCHANGED NzFrame

\* a second call with the same scale and threshold on data that keeps one
\* channel of the first call
NzCallAgain ==
  /\ nz.pc = "returned"
  /\ nz.prev = << >>
  /\ \E d \in NzInputs :
       /\ d # nz.data
       /\ \E c \in 1..Len(d) : c <= Len(nz.data) /\ d[c] = nz.data[c]
       /\ nz' = [nz EXCEPT !.pc = "called", !.data = d, !.out = << >>,
                           !.prev = <<[data |-> nz.data, out |-> nz.out]>>]
  /\ UNCHANGED NzFrame

NormalizeIdle == nz = NoNormalization

(***************************************************************************)
(* Part IX.  The bucket ranges of the workers of processWaveform           *)
(*                                                                         *)
(* One call with numPixels buckets on a machine with hw hardware threads   *)
(* and no cancellation flag; every write of result[channel][pixel] is      *)
(* recorded with the worker that made it.                                  *)
(***************************************************************************)

MaxPartitionPixels == 9
PartitionConcurrency == {1, 2, 3, 4}

\* the call before numThreads is computed
PtCall(numPixels, hw) ==
  [pc |-> "call", numPixels |-> numPixels, hw |-> hw, numThreads |-> 0,
   pos |-> << >>, writes |-> << >>]

\* the single loop runs pixel = 0 .. numPixels; worker t runs
\* pixel = startPixel .. endPixel
PtFirst(t) ==
  IF pt.numThreads <= 1 THEN 0 ELSE StartPixel(t, pt.numPixels, pt.numThreads)
PtLast(t) ==
  IF pt.numThreads <= 1 THEN pt.numPixels
  ELSE EndPixel(t, pt.numPixels, pt.numThreads)

PtFrame == <<oldVars, cbVars, hdVars, tdVars, nz>>

\* numThreads = std::min(hardware_concurrency(), numPixels); the single loop
\* or for (size_t t = 0; t < numThreads; ++t) std::async(...)
PtEnter ==
  /\ pt.pc = "call"
  /\ LET n == NumThreads(pt.hw, pt.numPixels)
         loops == IF n <= 1 THEN {0} ELSE 0..(n - 1)
     IN pt' = [pt EXCEPT
          !.pc = "loops", !.numThreads = n,
          !.pos = [t \in loops |->
                     IF n <= 1 THEN 0 ELSE StartPixel(t, pt.numPixels, n)],
          !.writes = [b \in 0..(pt.numPixels - 1) |-> << >>]]
  /\ UNCHANGED PtFrame

\* one iteration of for (pixel = startPixel; pixel < endPixel; ++pixel):
\* result[channel][pixel] = maxAmplitude for every channel
PtWrite(t) ==
  /\ pt.pc = "loops"
  /\ t \in DOMAIN pt.pos
  /\ pt.pos[t] < PtLast(t)
  /\ pt' = [pt EXCEPT !.writes[pt.pos[t]] = Append(@, t),
                      !.pos[t] = @ + 1]
  /\ UNCHANGED PtFrame

\* for (auto& future : futures) future.wait(); return result;
PtJoin ==
  /\ pt.pc = "loops"
  /\ \A t \in DOMAIN pt.pos : pt.pos[t] >= PtLast(t)
  /\ pt' = [pt EXCEPT !.pc = "returned"]
  /\ UNCHANGED PtFrame

PartitionIdle == pt = PtCall(0, 0)

\* no handle is in use, the registry is alive, no normalization is under way
HandlesIdle ==
  CallbacksIdle /\ StatesIdle /\ TeardownIdle /\ NormalizeIdle /\ PartitionIdle

(***************************************************************************)
(* Specifications                                                          *)
(***************************************************************************)

\* the handle as constructed, no job
ExtractorIdle ==
  /\ cancelled_ = FALSE
  /\ progress_ = Zero
  /\ progressCallback_ = FALSE
  /\ delivered = << >>
  /\ job = IdleJob
  /\ wk = NoWorkers
  /\ hist = NoHistory

RegistryIdle ==
  /\ players_ = EmptyMap
  /\ playersMutex_ = {}
  /\ thr = [t \in RThreads |-> IdleThread]
  /\ playing = {}
  /\ nextHandle = Prefill + 1

ExtractorMapIdle ==
  /\ extractors_ = EmptyMap
  /\ extractorsMutex_ = {}
  /\ xthr = [t \in RThreads |-> IdleCaller]
  /\ flagged = {}
  /\ nextExtractor = 1

\* One extraction handle: extract() jobs with their callers.
InitExtract ==
  RegistryIdle /\ ExtractorIdle /\ ExtractorMapIdle /\ PeaksIdle /\ HandlesIdle

NextExtract ==
  \/ Extract
  \/ Cancel
  \/ ResetCancellation
  \/ SetProgressCallback
  \/ ClearProgressCallback
  \/ ConsumeResult
  \/ JobReset
  \/ JobZero
  \/ JobUpdStore
  \/ JobUpdCall
  \/ JobCheckpoint
  \/ JobDecode
  \/ JobCatch
  \/ JobNormalize
  \/ JobProcess
  \/ JobProcessRaises
  \/ \E t \in Workers : WPoll(t)
  \/ \E t \in Workers : WCompute(t)
  \/ \E t \in Workers : WReportStore(t)
  \/ \E t \in Workers : WReportCall(t)
  \/ SingleLoopEnd
  \/ JoinWorkers
  \/ ProcReturn

SpecExtract == InitExtract /\ [][NextExtract]_vars

\* Direct calls of processWaveform on large inputs, with cancel() and
\* resetCancellation() on the flag it polls.
InitProcessor ==
  RegistryIdle /\ ExtractorIdle /\ ExtractorMapIdle /\ PeaksIdle /\ HandlesIdle

NextProcessor ==
  \/ DirectCall
  \/ Cancel
  \/ ResetCancellation
  \/ ConsumeResult
  \/ \E t \in Workers : WPoll(t)
  \/ \E t \in Workers : WCompute(t)
  \/ SingleLoopEnd
  \/ JoinWorkers
  \/ ProcReturn

SpecProcessor == InitProcessor /\ [][NextProcessor]_vars

\* The extractor map with its callers.
InitExtractorMap ==
  RegistryIdle /\ ExtractorIdle /\ ExtractorMapIdle /\ PeaksIdle /\ HandlesIdle

ExtractorCalls(K) ==
  \/ \E t \in RThreads, k \in K : CallCreateExtractor(t, k)
  \/ \E t \in RThreads : CeLock(t)
  \/ \E t \in RThreads : CeFind(t)
  \/ \E t \in RThreads : CeCreate(t)
  \/ \E t \in RThreads : CeStore(t)
  \/ \E t \in RThreads, k \in K : CallRemoveExtractor(t, k)
  \/ \E t \in RThreads : ReLock(t)
  \/ \E t \in RThreads : ReFind(t)
  \/ \E t \in RThreads : CallStopAllExtractors(t)
  \/ \E t \in RThreads : XsLock(t)
  \/ \E t \in RThreads : XsLoop(t)
  \/ \E t \in RThreads : XsCancel(t)
  \/ \E t \in RThreads : XsClear(t)
  \/ \E t \in RThreads : XUnlock(t)
  \/ \E t \in RThreads : XReturn(t)

NextExtractorMap ==
  \/ ExtractorCalls(XKeys)
  \/ \E e \in 1..MaxHandles : ExtractorRestart(e)

SpecExtractorMap == InitExtractorMap /\ [][NextExtractorMap]_vars

\* An extractor map that earlier createExtractor calls have filled beyond the
\* limit of the player map; the callers use one registered and one new key.
CrowdKeys == 1..(MAX_PLAYERS + 1)

CrowdCallerKeys == {1, MAX_PLAYERS + 2}

InitExtractorCrowd ==
  /\ RegistryIdle /\ ExtractorIdle /\ PeaksIdle /\ HandlesIdle
  /\ extractors_ = [k \in CrowdKeys |-> MaxHandles + k]
  /\ extractorsMutex_ = {}
  /\ xthr = [t \in RThreads |-> IdleCaller]
  /\ flagged = {}
  /\ nextExtractor = 1

NextExtractorCrowd == ExtractorCalls(CrowdCallerKeys)

SpecExtractorCrowd == InitExtractorCrowd /\ [][NextExtractorCrowd]_vars

\* processWaveform without a cancellation flag, on every buffer of up to
\* MaxSamples samples, every argument pair, machine and build.
InitPeaks ==
  /\ RegistryIdle /\ ExtractorIdle /\ ExtractorMapIdle /\ HandlesIdle
  /\ \E n \in 0..MaxSamples :
       \E data \in Buffers(n), spp \in SppValues, ch \in ChValues,
          hw \in HardwareConcurrency, build \in Builds :
         pk = PkCall(data, spp, ch, hw, build)

NextPeaks ==
  \/ PkEnter
  \/ \E t \in Workers : PkCompute(t)
  \/ PkFinish

SpecPeaks == InitPeaks /\ [][NextPeaks]_vars

\* the keys the callers of the sweep specification use
SweepKeys == {Prefill + 1, Prefill + 2}

RegistryCalls(K) ==
  \/ \E t \in RThreads, k \in K : CallCreatePlayer(t, k)
  \/ \E t \in RThreads : CpLock(t)
  \/ \E t \in RThreads : CpFind(t)
  \/ \E t \in RThreads : CpCap(t)
  \/ \E t \in RThreads : CpCreate(t)
  \/ \E t \in RThreads : CpStore(t)
  \/ \E t \in RThreads, k \in K : CallRemovePlayer(t, k)
  \/ \E t \in RThreads : RmLock(t)
  \/ \E t \in RThreads : RmFind(t)
  \/ \E t \in RThreads : CallStopAllPlayers(t)
  \/ \E t \in RThreads : SaLock(t)
  \/ \E t \in RThreads : SaLoop(t)
  \/ \E t \in RThreads : SaClear(t)
  \/ \E t \in RThreads : Unlock(t)
  \/ \E t \in RThreads : Return(t)
  \/ \E t \in RThreads : Forget(t)

\* A registry that is PrefillGap players short of full, none of them playing.
InitCapacity ==
  /\ players_ = [k \in ColdKeys |-> k]
  /\ playersMutex_ = {}
  /\ thr = [t \in RThreads |-> IdleThread]
  /\ playing = {}
  /\ nextHandle = Prefill + 1
  /\ ExtractorIdle
  /\ ExtractorMapIdle
  /\ PeaksIdle
  /\ HandlesIdle

NextCapacity == RegistryCalls(HotKeys)

SpecCapacity == InitCapacity /\ [][NextCapacity]_vars

\* The registry as constructed: empty.  Players are started and finish.
InitRegistry ==
  RegistryIdle /\ ExtractorIdle /\ ExtractorMapIdle /\ PeaksIdle /\ HandlesIdle

NextRegistry ==
  \/ RegistryCalls(SweepKeys)
  \/ \E t \in RThreads : SaStop(t)
  \/ \E t \in RThreads : SaAwait(t)
  \/ \E h \in (Prefill + 1)..LastHandle : PlayerStart(h)
  \/ \E h \in (Prefill + 1)..LastHandle : PlayerFinish(h)

SpecRegistry == InitRegistry /\ [][NextRegistry]_vars

\* The callback slots of one handle, used by two threads.
InitCallbacks ==
  RegistryIdle /\ ExtractorIdle /\ ExtractorMapIdle /\ PeaksIdle /\ HandlesIdle

NextCallbacks ==
  \/ \E t \in RThreads, s \in Slots, c \in CallbackIds : CallSetCallback(t, s, c)
  \/ \E t \in RThreads, s \in Slots : CallClearCallback(t, s)
  \/ \E t \in RThreads, s \in Slots : CallInvokeCallback(t, s)
  \/ \E t \in RThreads, s \in Slots : CallHasCallback(t, s)
  \/ \E t \in RThreads : CbLock(t)
  \/ \E t \in RThreads : CbSetStore(t)
  \/ \E t \in RThreads : CbClearStore(t)
  \/ \E t \in RThreads : CbHas(t)
  \/ \E t \in RThreads : CbInvokeTest(t)
  \/ \E t \in RThreads : CbBodyReturn(t)
  \/ \E t \in RThreads, op \in SlotOps : CbBodyReenter(t, op)
  \/ \E t \in RThreads : CbUnlock(t)
  \/ \E t \in RThreads : CbForget(t)

SpecCallbacks == InitCallbacks /\ [][NextCallbacks]_vars

\* A playback handle used by two threads and a capture handle driven by its
\* platform operations.
InitHandles ==
  RegistryIdle /\ ExtractorIdle /\ ExtractorMapIdle /\ PeaksIdle /\ HandlesIdle

NextHandles ==
  \/ \E t \in RThreads, newState \in PlayerStates : SetState(t, newState)
  \/ \E t \in RThreads : GetState(t)
  \/ \E t \in RThreads : IsPrepared(t)
  \/ \E t \in RThreads : Prepare(t)
  \/ \E t \in RThreads : Start(t)
  \/ \E t \in RThreads : Pause(t)
  \/ \E t \in RThreads : Stop(t)
  \/ \E t \in RThreads : PlayerForget(t)
  \/ StartRecording
  \/ PauseRecording
  \/ ResumeRecording
  \/ StopRecording
  \/ StopRecordingFinish

SpecHandles == InitHandles /\ [][NextHandles]_vars

\* The registry left by earlier calls (players, some of them playing,
\* extractors, a recorder reference), and its destruction.
InitTeardown ==
  /\ ExtractorIdle /\ PeaksIdle /\ CallbacksIdle /\ StatesIdle /\ NormalizeIdle
  /\ PartitionIdle
  /\ \E K \in SUBSET SweepKeys : players_ = [k \in K |-> k]
  /\ playersMutex_ = {}
  /\ thr = [t \in RThreads |-> IdleThread]
  /\ playing \in SUBSET SweepKeys
  /\ nextHandle = LastHandle + 1
  /\ \E X \in SUBSET XKeys : extractors_ = [k \in X |-> k]
  /\ extractorsMutex_ = {}
  /\ xthr = [t \in RThreads |-> IdleCaller]
  /\ flagged = {}
  /\ nextExtractor = MaxHandles + 1
  /\ recorderInstance_ \in {"empty", "live", "expired"}
  /\ td = RegistryAlive

NextTeardown ==
  \/ TdBegin
  \/ TdPlayersLock
  \/ TdPlayersLoop
  \/ TdIsPlaying
  \/ TdPlayerStop
  \/ TdPlayersClear
  \/ TdExtractorsLock
  \/ TdExtractorsLoop
  \/ TdExtractorCancel
  \/ TdExtractorsClear
  \/ TdRecorderReset

SpecTeardown == InitTeardown /\ [][NextTeardown]_vars

\* One call of normalizeWaveform on each input, and a second call on data
\* sharing a channel with the first.
InitNormalize ==
  /\ ExtractorIdle /\ RegistryIdle /\ ExtractorMapIdle /\ PeaksIdle
  /\ CallbacksIdle /\ StatesIdle /\ TeardownIdle /\ PartitionIdle
  /\ \E d \in NzInputs, sc \in ScaleValues, th \in ThresholdValues :
       nz = [NoNormalization EXCEPT !.pc = "called", !.data = d,
                                    !.scale = sc, !.threshold = th]

NextNormalize ==
  \/ NzReturn
  \/ NzCallAgain

SpecNormalize == InitNormalize /\ [][NextNormalize]_vars

\* One processWaveform call for every bucket count and hardware concurrency.
InitPartition ==
  /\ RegistryIdle /\ ExtractorIdle /\ ExtractorMapIdle /\ PeaksIdle
  /\ CallbacksIdle /\ StatesIdle /\ TeardownIdle /\ NormalizeIdle
  /\ \E numPixels \in 1..MaxPartitionPixels, hw \in PartitionConcurrency :
       pt = PtCall(numPixels, hw)

NextPartition ==
  \/ PtEnter
  \/ \E t \in DOMAIN pt.pos : PtWrite(t)
  \/ PtJoin

SpecPartition == InitPartition /\ [][NextPartition]_vars

\* The registry as constructed, its callers, its players, and its
\* destruction once no caller is inside.
InitRemoved ==
  RegistryIdle /\ ExtractorIdle /\ ExtractorMapIdle /\ PeaksIdle /\ HandlesIdle

NextRemoved ==
  \/ td.pc = "alive" /\ RegistryCalls(SweepKeys)
  \/ \E t \in RThreads : SaStop(t)
  \/ \E t \in RThreads : SaAwait(t)
  \/ \E h \in (Prefill + 1)..LastHandle : PlayerStart(h)
  \/ \E h \in (Prefill + 1)..LastHandle : PlayerFinish(h)
  \/ TdBegin
  \/ TdPlayersLock
  \/ TdPlayersLoop
  \/ TdIsPlaying
  \/ TdPlayerStop
  \/ TdPlayersClear
  \/ TdExtractorsLock
  \/ TdExtractorsLoop
  \/ TdExtractorsClear
  \/ TdRecorderReset

SpecRemoved == InitRemoved /\ [][NextRemoved]_vars

\* createPlayer and createExtractor on the registry as constructed, the
\* platform yielding an instance or none.
\* the one key the callers of each map use
CreationKeys == {Prefill + 1}
CreationXKeys == {1}

InitCreation ==
  RegistryIdle /\ ExtractorIdle /\ ExtractorMapIdle /\ PeaksIdle /\ HandlesIdle

NextCreation ==
  \/ \E t \in RThreads, k \in CreationKeys : CallCreatePlayer(t, k)
  \/ \E t \in RThreads : CpLock(t)
  \/ \E t \in RThreads : CpFind(t)
  \/ \E t \in RThreads : CpCap(t)
  \/ \E t \in RThreads : CpCreate(t)
  \/ \E t \in RThreads : CpStore(t)
  \/ \E t \in RThreads : Unlock(t)
  \/ \E t \in RThreads : Return(t)
  \/ \E t \in RThreads : Forget(t)
  \/ \E t \in RThreads, k \in CreationXKeys : CallCreateExtractor(t, k)
  \/ \E t \in RThreads : CeLock(t)
  \/ \E t \in RThreads : CeFind(t)
  \/ \E t \in RThreads : CeCreate(t)
  \/ \E t \in RThreads : CeStore(t)
  \/ \E t \in RThreads : XUnlock(t)
  \/ \E t \in RThreads : XReturn(t)

SpecCreation == InitCreation /\ [][NextCreation]_vars

(***************************************************************************)
(* Claims about the registry                                               *)
(***************************************************************************)

AtUnlock(t, op) == thr[t].op = op /\ thr[t].pc = "unlock"

\* C1: the player map never holds more than MAX_PLAYERS entries, and a
\* createPlayer with an unregistered key that finds MAX_PLAYERS players
\* registered fails with the capacity error and leaves the map as it found it.
C1_CapacityNeverExceeded ==
  /\ MapSize(players_) <= MAX_PLAYERS
  /\ \A t \in RThreads :
       ( /\ AtUnlock(t, "createPlayer")
         /\ ~HasKey(thr[t].snap, thr[t].key)
         /\ MapSize(thr[t].snap) >= MAX_PLAYERS )
       => (thr[t].out = "capacity" /\ players_ = thr[t].snap)

C1_Witness ==
  \E t \in RThreads :
    /\ AtUnlock(t, "createPlayer")
    /\ thr[t].out = "capacity"
    /\ MapSize(players_) = MAX_PLAYERS

\* two createPlayer calls for the same key, the key unregistered when each
\* began, pending at the same time, and both have returned
RacedPair(t, u) ==
  /\ t # u
  /\ u \in thr[t].rivals /\ t \in thr[u].rivals
  /\ thr[t].pc = "returned" /\ thr[u].pc = "returned"
  /\ thr[t].free /\ thr[u].free

OneOk(t, u) == (thr[t].out = "ok") # (thr[u].out = "ok")

\* C2 as stated: createPlayer for a registered key fails and leaves the
\* binding and the size alone, and of two concurrent createPlayer calls for
\* the same unregistered key exactly one succeeds.
C2_Original ==
  /\ \A t \in RThreads :
       (AtUnlock(t, "createPlayer") /\ HasKey(thr[t].snap, thr[t].key))
       => (thr[t].out = "duplicate" /\ players_ = thr[t].snap)
  /\ \A t, u \in RThreads : RacedPair(t, u) => OneOk(t, u)

\* C2 amended: createPlayer for a registered key fails and leaves the binding
\* and the size alone; of two concurrent createPlayer calls for the same
\* unregistered key, the key not removed meanwhile, at most one succeeds, and
\* exactly one does when neither fails for capacity or for a missing platform
\* instance and no third createPlayer for the key overlaps them.
C2_DuplicateFailsOneWinner ==
  /\ \A t \in RThreads :
       (AtUnlock(t, "createPlayer") /\ HasKey(thr[t].snap, thr[t].key))
       => (thr[t].out = "duplicate" /\ players_ = thr[t].snap)
  /\ \A t, u \in RThreads :
       (RacedPair(t, u) /\ ~thr[t].evicted /\ ~thr[u].evicted)
       => /\ ~(thr[t].out = "ok" /\ thr[u].out = "ok")
          /\ ( /\ {thr[t].out, thr[u].out} \subseteq {"ok", "duplicate"}
               /\ thr[t].rivals = {u} /\ thr[u].rivals = {t} )
             => OneOk(t, u)

C2_Witness ==
  \E t, u \in RThreads :
    /\ RacedPair(t, u)
    /\ ~thr[t].evicted /\ ~thr[u].evicted
    /\ thr[t].out = "ok" /\ thr[u].out = "duplicate"

Resolves(t) ==
  /\ thr[t].op = "stopAllPlayers"
  /\ thr[t].pc = "ret"
  /\ thr'[t].pc = "returned"

\* C9 as stated: when the future of stopAllPlayers resolves the player map
\* is empty at that moment, and stop() has been invoked on every player that
\* reported playing when the sweep reached it.
C9_Original ==
  [][\A t \in RThreads :
       Resolves(t) => /\ MapSize(players_') = 0
                      /\ thr[t].seen \subseteq thr[t].invoked]_vars

\* C9 amended: when the sweep of stopAllPlayers leaves its body, still
\* holding the lock, the player map is empty, every entry has been visited
\* and stop() has been invoked on every player that reported playing when the
\* sweep reached it; when the future resolves none of the players registered
\* at the start of the sweep is registered (a concurrent createPlayer may
\* have registered new ones after the lock was released).
C9_SweepEmptiesMap ==
  /\ [](\A t \in RThreads :
          AtUnlock(t, "stopAllPlayers")
          => /\ MapSize(players_) = 0
             /\ thr[t].left = {}
             /\ thr[t].seen \subseteq thr[t].invoked)
  /\ [][\A t \in RThreads :
          Resolves(t) => /\ MapHandles(players_') \cap MapHandles(thr[t].snap) = {}
                         /\ thr[t].seen \subseteq thr[t].invoked]_vars

C9_Witness ==
  \E t \in RThreads :
    /\ thr[t].op = "stopAllPlayers" /\ thr[t].pc = "ret"
    /\ thr[t].seen # {}
    /\ MapSize(players_) > 0

StopPending(t) == thr[t].op = "stopAllPlayers" /\ thr[t].pc = "sa_await"

\* C11: the player-map lock is not held while stopAllPlayers invokes and
\* awaits a player's stop(), so that other registry calls can take the lock
\* and complete while a stop() is pending.
C11_Original ==
  \A t \in RThreads : StopPending(t) => t \notin playersMutex_

(***************************************************************************)
(* Claims about the extraction engine and the peak processor               *)
(***************************************************************************)

Resolved == job.pc = "resolved"

\* C3: a cancel() issued at any point after extract() has returned its
\* future and before the job finishes, the time before the task has begun
\* included, makes the future resolve with an empty envelope and leaves the
\* stored progress at 0.0.
C3_Original ==
  (Resolved /\ hist.cancelCalled /\ job.result # "error")
  => (job.result = "empty" /\ Same(progress_, Zero))

\* C4: when the task reads the flag as set at one of its four checkpoints
\* the future resolves without an error, with an empty envelope, and the
\* stored progress is 0.0 when it resolves.
C4_CheckpointCancelResolvesEmpty ==
  (Resolved /\ hist.sawCancel)
  => (job.result = "empty" /\ Same(progress_, Zero))

C4_Witness ==
  /\ Resolved
  /\ hist.sawCancel
  /\ job.ret = "envelope"
  /\ job.result = "empty"

\* a step of an extraction that no cancel() has touched and that has not
\* failed, after the initial store of 0.0
UncancelledStep ==
  /\ job.pc \notin {"idle", "start", "zero", "catch", "resolved", "returned"}
  /\ ~hist'.cancelCalled

\* C5: within one uncancelled extraction neither the stored progress nor
\* the values delivered to the progress callback ever decrease, also while
\* several workers report concurrently.
C5_Original ==
  [][UncancelledStep
     => /\ Leq(progress_, progress_')
        /\ (delivered # << >> /\ delivered' # << >>)
           => Leq(delivered[1], delivered'[1])]_vars

\* C6: an extraction that is neither cancelled nor failing ends with the
\* stored progress at exactly 1.0, and the last value delivered to an
\* installed progress callback is 1.0.
C6_UncancelledEndsAtOne ==
  (Resolved /\ ~hist.cancelCalled /\ job.result # "error")
  => /\ Same(progress_, One)
     /\ progressCallback_ => (delivered # << >> /\ Same(delivered[1], One))

C6_Witness ==
  /\ Resolved
  /\ ~hist.cancelCalled
  /\ job.result = "envelope"
  /\ job.numThreads = 2
  /\ progressCallback_
  /\ delivered # << >>
  /\ Same(delivered[1], One)

\* C7 as stated: once the flag is set while processWaveform runs, at most
\* CancelPollInterval further buckets are computed over all loops together,
\* and processWaveform returns the empty envelope.
C7_Original ==
  /\ hist.further <= CancelPollInterval
  /\ (job.pc = "returned" /\ hist.setInCall) => job.ret = "empty"

\* C7 amended: once the flag is set while processWaveform runs, and for as
\* long as it stays set, at most CancelPollInterval further buckets per loop
\* (the single loop, or each worker) are computed, CancelPollInterval times
\* the number of loops in total; processWaveform returns the empty envelope
\* exactly when a poll of the single loop or the check after the join has
\* read the flag as set.
C7_EachLoopStopsAtNextPoll ==
  /\ hist.further <= CancelPollInterval * Max(job.numThreads, 1)
  /\ (job.pc = "returned" /\ job.numPixels > 0)
     => (job.ret = "empty" <=> hist.observed)

C7_Witness ==
  /\ job.pc = "returned"
  /\ job.ret = "empty"
  /\ hist.observed
  /\ hist.further > CancelPollInterval

\* C8: processWaveform returns the empty envelope or an envelope whose every
\* bucket has been computed, under every interleaving of its workers with
\* cancel() and resetCancellation().
C8_Original == (job.ret = "envelope") => hist.whole

\* C17: when the decoder or the processor raises during an extraction the
\* future carries the error to the caller and the stored progress reads 0.0
\* once it has resolved.
C17_FailureSurfacesProgressZero ==
  /\ (Resolved /\ hist.raised)
     => (job.result = "error" /\ Same(progress_, Zero))
  /\ (Resolved /\ job.result = "error") => hist.raised

C17_Witness ==
  /\ Resolved
  /\ hist.raised
  /\ job.result = "error"
  /\ delivered # << >>
  /\ Same(delivered[1], Frac(5, 10))
  /\ Same(progress_, Zero)

\* the task has passed its two opening statements
PastReset == job.pc \notin {"idle", "start", "zero", "returned"}

\* C18: an extract() on a handle whose flag is still set from an earlier
\* cancel() clears the flag and stores progress 0 before any other work, so
\* that without a new cancel() or a failure the job is not cancelled and
\* runs to completion.
C18_StaleCancelDoesNotCancel ==
  (hist.stale /\ ~hist.cancelCalled)
  => /\ (PastReset /\ ~Resolved) => ~cancelled_
     /\ (job.pc = "up10" /\ job.half = "store") => Same(progress_, Zero)
     /\ ~hist.sawCancel /\ ~hist.observed
     /\ (Resolved /\ ~hist.raised)
        => /\ Same(progress_, One)
           /\ job.result = job.ret
           /\ job.numPixels > 0 => job.result = "envelope"

C18_Witness ==
  /\ hist.stale
  /\ ~hist.cancelCalled
  /\ Resolved
  /\ job.result = "envelope"
  /\ Same(progress_, One)

\* a step in which the installed progress callback is invoked
InvokesCallback ==
  /\ progressCallback_
  /\ \/ job.pc \in UpdStages /\ job.half = "call" /\ job'.half = "store"
     \/ \E t \in Workers : wk[t].pc = "call" /\ wk'[t].pc # "call"

\* C19: once cancel() has been called during an extraction the progress
\* callback is not invoked again for that job.
C19_Original == [][hist.cancelCalled => ~InvokesCallback]_vars

(***************************************************************************)
(* Claims about the extractor map                                          *)
(***************************************************************************)

SweepDone(t) == xthr[t].op = "stopAllExtractors" /\ xthr[t].pc = "unlock"

\* C12: stopAllExtractors calls cancel() on, and so sets the flag of, every
\* extractor registered when it took the lock, leaves the extractor map
\* empty and resolves to true; no cancel() keeps the sweep from the others.
C12_SweepCancelsAll ==
  \A t \in RThreads :
    SweepDone(t)
    => /\ MapHandles(xthr[t].snap) \subseteq xthr[t].invoked
       /\ xthr[t].left = {}
       /\ MapSize(extractors_) = 0
       /\ xthr[t].out = "true"

C12_Witness ==
  \E t \in RThreads :
    /\ SweepDone(t)
    /\ Cardinality(xthr[t].invoked) >= 2
    /\ xthr[t].invoked \subseteq flagged

CreateDone(t) == xthr[t].op = "createExtractor" /\ xthr[t].pc = "unlock"

PkReturned == pk.pc = "returned"
WellFormed == ~BadArgs(pk.audioData, pk.spp, pk.ch)

\* B = floor(N / (S * C))
Buckets == Len(pk.audioData) \div (pk.spp * pk.ch)

\* max over k in [0, S) of |pcm[b*S*C + k*C + c]|
PeakOf(data, spp, ch, b, c) ==
  LET vals == {Abs(At(data, b * spp * ch + k * ch + c)) : k \in 0..(spp - 1)}
  IN CHOOSE m \in vals : \A v \in vals : v <= m

PeakEnvelope(data, spp, ch, numPixels) ==
  [c \in 1..ch |-> [b \in 1..numPixels |-> PeakOf(data, spp, ch, b - 1, c - 1)]]

\* C13: without cancellation every value of the returned envelope is the
\* largest absolute value of the S samples of its channel in its bucket, so
\* it is >= 0, and the samples after the last whole bucket have no influence.
C13_PeakOfEachBucket ==
  (PkReturned /\ pk.ret = "envelope")
  => /\ pk.result = PeakEnvelope(pk.audioData, pk.spp, pk.ch, pk.numPixels)
     /\ pk.result =
          PeakEnvelope(SubSeq(pk.audioData, 1, pk.numPixels * pk.spp * pk.ch),
                       pk.spp, pk.ch, pk.numPixels)
     /\ \A c \in 1..pk.ch : \A b \in 1..pk.numPixels : pk.result[c][b] >= 0

C13_Witness ==
  /\ PkReturned
  /\ pk.ret = "envelope"
  /\ pk.ch = 2 /\ pk.spp = 2 /\ pk.numThreads = 2
  /\ Len(pk.audioData) > pk.numPixels * pk.spp * pk.ch
  /\ pk.result = <<(<<1, 0>>), (<<0, 1>>)>>

\* C14: for S >= 1, C >= 1 and B = floor(N / (S*C)) > 0, without
\* cancellation, the result has exactly C channels of exactly B buckets; the
\* two successive divisions N / S / C yield that B.
C14_ShapeIsChannelsByBuckets ==
  /\ WellFormed
     => NumPixels(Len(pk.audioData), pk.spp, pk.ch) = Buckets
  /\ (PkReturned /\ WellFormed /\ Buckets > 0)
     => /\ pk.ret = "envelope"
        /\ Len(pk.result) = pk.ch
        /\ \A c \in 1..pk.ch : Len(pk.result[c]) = Buckets

C14_Witness ==
  /\ PkReturned
  /\ pk.ret = "envelope"
  /\ pk.ch = 2 /\ pk.spp = 2
  /\ Len(pk.audioData) = 9
  /\ Len(pk.result) = 2 /\ Len(pk.result[1]) = 2 /\ Len(pk.result[2]) = 2

\* the envelope of the single-threaded loop
SingleThreadedEnvelope(data, spp, ch, numPixels) ==
  [c \in 1..ch |->
     [b \in 1..numPixels |-> BucketSingle(data, spp, ch, b - 1, c - 1)]]

\* C15: for the same input, without cancellation, the envelope is the one
\* the single-threaded loop computes, whatever the number of workers, the
\* build of findMaxAbs and the order of the workers' steps.
C15_SameEnvelopeOnEveryPath ==
  (PkReturned /\ pk.ret = "envelope")
  => pk.result =
       SingleThreadedEnvelope(pk.audioData, pk.spp, pk.ch, pk.numPixels)

C15_Witness ==
  /\ PkReturned
  /\ pk.ret = "envelope"
  /\ pk.numThreads = 2 /\ pk.build = "vector"
  /\ pk.ch = 1 /\ pk.spp = 4
  /\ Len(pk.audioData) = 9
  /\ pk.result = <<(<<1, 1>>)>>

\* C16: with an empty buffer, S <= 0, C <= 0 or fewer than S*C samples the
\* result is the empty envelope, and the progress callback is not invoked.
C16_MalformedGivesEmpty ==
  (PkReturned /\ (~WellFormed \/ Buckets = 0))
  => /\ pk.ret = "empty"
     /\ pk.result = EmptyEnvelope
     /\ ~pk.reported

C16_Witness ==
  /\ PkReturned
  /\ WellFormed
  /\ Len(pk.audioData) < pk.spp * pk.ch
  /\ pk.ret = "empty"
  /\ ~pk.reported


\* the step stores true into a flag that was false
FlagRaised == ~cancelled_ /\ cancelled_'

\* the step is a cancel() of an extraction whose flag was already set
RepeatedCancel == ~hist.again /\ hist'.again

\* C28: cancel() changes the cancellation flag only: the stored progress,
\* the callback slot, the deliveries and the job are as before the call; a
\* cancel() on a cancelled handle changes nothing at all.
C28_CancelTouchesOnlyTheFlag ==
  [][/\ FlagRaised =>
          <<progress_, progressCallback_, delivered, job, wk>>'
            = <<progress_, progressCallback_, delivered, job, wk>>
     /\ RepeatedCancel =>
          <<cancelled_, progress_, progressCallback_, delivered, job, wk>>'
            = <<cancelled_, progress_, progressCallback_, delivered, job, wk>>]_vars

\* cancel() was called twice during an extraction with a callback installed,
\* and the progress stored before the calls is still there
C28_Witness ==
  /\ hist.again /\ cancelled_
  /\ progressCallback_
  /\ ~Same(progress_, Zero)
  /\ Running

(***************************************************************************)
(* Claims about the callback slots                                         *)
(***************************************************************************)

\* between taking callbackMutex_ and releasing it
InSection(t) == cth[t].pc \in {"locked", "running", "inner_lock", "inner_locked", "unlock"}

\* C22: installs, clears and invocations on one handle exclude each other: at
\* most one thread is inside a slot operation, so a callback body runs with
\* no other body of the handle (of either slot) and no change of a slot.
C22_SlotOpsExclusive ==
  /\ \A t, u \in RThreads : (InSection(t) /\ InSection(u)) => t = u
  /\ \A t \in RThreads : InSection(t) => callbackMutex_ = {t}
  /\ \A t \in RThreads :
       cth[t].pc = "running"
       => \A u \in RThreads \ {t} : cth[u].pc \in {"idle", "lock", "returned"}

\* a callback body is running while another thread waits to change the
\* other slot
C22_Witness ==
  \E t, u \in RThreads :
    /\ cth[t].pc = "running"
    /\ cth[u].pc = "lock" /\ cth[u].op \in {"set", "clear"}
    /\ cth[u].slot # cth[t].slot

\* the callback body of thread t has called a slot operation of its handle
Reentered(t) == cth[t].inner # "none"

\* C29: a callback that calls a slot operation of its own handle from inside
\* its invocation never returns: its thread stays at the lock of the inner
\* operation, owning callbackMutex_, and the body is never left.
C29_ReentryBlocksForever ==
  \A t \in RThreads :
    Reentered(t)
    => /\ cth[t].pc = "inner_lock"
       /\ callbackMutex_ = {t}
       /\ cth[t].run # 0 /\ cth[t].ran = 0

\* a callback has re-entered with a clear of its own slot, the slot still
\* holds it, and the other thread waits for the lock
C29_Witness ==
  \E t, u \in RThreads :
    /\ Reentered(t) /\ cth[t].inner = "clear"
    /\ slots[cth[t].slot] = cth[t].run
    /\ u # t /\ cth[u].pc = "lock"

\* C30: a callback body runs only while its slot holds that callback; when a
\* clear has stored the empty slot no body of the handle is running, an
\* invocation that finds the slot empty runs nothing, and an invocation that
\* runs a callback runs the one the slot holds.
C30_ClearedSlotIsNotInvoked ==
  /\ \A t \in RThreads :
       cth[t].run # 0 => slots[cth[t].slot] = cth[t].run
  /\ \A t \in RThreads :
       (cth[t].op = "clear" /\ cth[t].pc = "unlock")
       => /\ slots[cth[t].slot] = 0
          /\ \A u \in RThreads : cth[u].run = 0
  /\ \A t \in RThreads :
       (cth[t].op = "invoke" /\ cth[t].pc \in {"unlock", "returned"})
       => cth[t].ran = cth[t].found
  /\ \A t \in RThreads :
       (cth[t].op = "invoke" /\ cth[t].pc = "unlock" /\ slots[cth[t].slot] = 0)
       => cth[t].ran = 0

\* after a clear of a slot that held a callback has returned, an invocation
\* of that slot has found it empty and run nothing
C30_Witness ==
  \E t, u \in RThreads :
    /\ cth[t].op = "clear" /\ cth[t].pc = "returned"
    /\ cth[u].op = "invoke" /\ cth[u].pc = "unlock"
    /\ cth[u].slot = cth[t].slot
    /\ slots[cth[u].slot] = 0 /\ cth[u].ran = 0

(***************************************************************************)
(* Claims about the state of the handles                                   *)
(***************************************************************************)

\* the edges of the playback state machine
PlayerEdges ==
  { <<"Idle", "Prepared">>, <<"Prepared", "Playing">>, <<"Playing", "Paused">>,
    <<"Paused", "Playing">>, <<"Playing", "Stopped">>, <<"Paused", "Stopped">>,
    <<"Stopped", "Playing">> }

\* C23: every operation of the playback handle that changes the state takes
\* it along one of the edges Idle -> Prepared, Prepared -> Playing,
\* Playing -> Paused, Paused -> Playing, Playing or Paused -> Stopped,
\* Stopped -> Playing.
C23_Original ==
  \A t \in RThreads :
    (pth[t].pc = "returned" /\ pth[t].after # pth[t].before
       /\ pth[t].op \in {"setState", "prepare", "start", "pause", "stop"})
    => <<pth[t].before, pth[t].after>> \in PlayerEdges

C25_TeardownClearsEverything ==
  /\ ~td.escaped
  /\ td.pc = "done"
     => /\ MapSize(players_) = 0
        /\ MapSize(extractors_) = 0
        /\ recorderInstance_ = "empty"
        /\ td.asked = td.stopped
        /\ td.found = td.cancelInvoked
        /\ td.cancelInvoked \subseteq flagged
        /\ playersMutex_ = {} /\ extractorsMutex_ = {}

\* the teardown is done, the first player raised an error, the second was
\* stopped all the same, and two extractors were cancelled
C25_Witness ==
  /\ td.pc = "done"
  /\ \E h \in td.failedOn : \E g \in td.stopped : g > h
  /\ Cardinality(td.cancelInvoked) = 2

(***************************************************************************)
(* Claims about normalizeWaveform                                          *)
(***************************************************************************)

\* the value lies in [-scale, +scale]
InScale(v, scale) == Leq(Frac(-scale, 1), v) /\ Leq(v, Frac(scale, 1))

\* no sample of the channel reaches the threshold with a non-zero amplitude
NothingLoud(channelData, threshold) ==
  \A i \in 1..Len(channelData) :
    Abs(channelData[i]) < threshold \/ channelData[i] = 0

\* C26: for scale >= 0 the result has the shape of the input, every value is
\* in [-scale, +scale], every sample below the threshold becomes exactly 0,
\* and a channel with nothing at or above the threshold (or only zeros
\* there) becomes all zeros.
C26_NormalizedShapeRangeAndZeros ==
  (nz.pc = "returned" /\ nz.scale >= 0) =>
    /\ Len(nz.out) = Len(nz.data)
    /\ \A c \in 1..Len(nz.data) :
         /\ Len(nz.out[c]) = Len(nz.data[c])
         /\ \A i \in 1..Len(nz.data[c]) :
              /\ InScale(nz.out[c][i], nz.scale)
              /\ Abs(nz.data[c][i]) < nz.threshold => nz.out[c][i][1] = 0
              /\ NothingLoud(nz.data[c], nz.threshold) => nz.out[c][i][1] = 0

\* a call with a positive scale returned: one channel holds a non-zero sample
\* below the threshold and a sample mapped to -scale, another channel holds
\* non-zero samples and nothing loud
C26_Witness ==
  /\ nz.pc = "returned" /\ nz.scale > 0
  /\ \E c \in 1..Len(nz.data) : \E i, j \in 1..Len(nz.data[c]) :
       /\ nz.data[c][i] # 0 /\ Abs(nz.data[c][i]) < nz.threshold
       /\ Same(nz.out[c][j], Frac(-nz.scale, 1))
  /\ \E c \in 1..Len(nz.data) :
       /\ NothingLoud(nz.data[c], nz.threshold)
       /\ \E i \in 1..Len(nz.data[c]) : nz.data[c][i] # 0

\* the two channels hold the same values
SameChannel(a, b) ==
  /\ Len(a) = Len(b)
  /\ \A i \in 1..Len(a) : Same(a[i], b[i])

\* C27: two inputs that agree on channel c, normalized with the same scale
\* and threshold, give results that agree on channel c.
C27_NormalizationIsPerChannel ==
  (nz.pc = "returned" /\ nz.prev # << >>) =>
    \A c \in 1..Len(nz.data) :
      (c <= Len(nz.prev[1].data) /\ nz.data[c] = nz.prev[1].data[c])
        => SameChannel(nz.out[c], nz.prev[1].out[c])

\* the second call returned: a channel was kept and its result is not all
\* zeros, the other channel was changed and so was its result
C27_Witness ==
  /\ nz.pc = "returned" /\ nz.prev # << >>
  /\ Len(nz.data) = 2 /\ Len(nz.prev[1].data) = 2
  /\ \E c, e \in 1..2 :
       /\ nz.data[c] = nz.prev[1].data[c]
       /\ \E i \in 1..Len(nz.out[c]) : nz.out[c][i][1] # 0
       /\ MaxAmplitude(nz.data[e], nz.threshold) > MaxAmplitude(nz.data[c], nz.threshold)
       /\ ~SameChannel(nz.out[e], nz.prev[1].out[e])

(***************************************************************************)
(* Claims about the bucket ranges of the workers                           *)
(***************************************************************************)

\* ceil(B / T): the least q with q * T >= B
CeilDiv(B, T) == CHOOSE q \in 0..B : q * T >= B /\ (q - 1) * T < B

\* the buckets [t * ceil(B / T), min((t + 1) * ceil(B / T), B)) of worker t
RangeOf(t) ==
  {b \in 0..(pt.numPixels - 1) :
     /\ t * CeilDiv(pt.numPixels, pt.numThreads) <= b
     /\ b < Min((t + 1) * CeilDiv(pt.numPixels, pt.numThreads), pt.numPixels)}

\* C31: with 2 <= T <= B workers the ranges of two workers share no bucket
\* and every bucket is in a range; no bucket is ever written twice, a bucket
\* is written only by the worker whose range holds it, and when the workers
\* have joined every bucket has been written exactly once.
C31_WorkerRangesPartitionTheBuckets ==
  (pt.pc \in {"loops", "returned"} /\ pt.numThreads >= 2) =>
    /\ pt.numThreads <= pt.numPixels
    /\ \A t, u \in 0..(pt.numThreads - 1) : t # u => RangeOf(t) \cap RangeOf(u) = {}
    /\ \A b \in 0..(pt.numPixels - 1) :
         /\ \E t \in 0..(pt.numThreads - 1) : b \in RangeOf(t)
         /\ Len(pt.writes[b]) <= 1
         /\ \A i \in 1..Len(pt.writes[b]) : b \in RangeOf(pt.writes[b][i])
         /\ pt.pc = "returned" => Len(pt.writes[b]) = 1

\* the workers have joined; there were at least three and the last one
\* started beyond the last bucket
C31_Witness ==
  /\ pt.pc = "returned"
  /\ pt.numThreads >= 3
  /\ StartPixel(pt.numThreads - 1, pt.numPixels, pt.numThreads) > pt.numPixels
  /\ \A b \in 0..(pt.numPixels - 1) : Len(pt.writes[b]) = 1

(***************************************************************************)
(* Claims about a removed player                                           *)
(***************************************************************************)

\* removePlayer(key) of thread t has erased an entry and not yet returned
HasRemoved(t) ==
  /\ thr[t].op = "removePlayer"
  /\ thr[t].pc \in {"unlock", "ret"}
  /\ thr[t].out = "true"

\* the handle the erased entry held
RemovedHandle(t) == thr[t].snap[thr[t].key]

\* the step is the find-and-erase of a removePlayer call
RemoveStep ==
  \E t \in RThreads :
    /\ thr[t].op = "removePlayer"
    /\ thr[t].pc = "rm_find"
    /\ thr'[t].pc = "unlock"

\* C32: removePlayer invokes nothing on a player and its erase leaves the
\* set of playing players as it was; the removed handle is in the map no
\* more, a sweep of stopAllPlayers() or of the teardown stops only handles
\* that were in the map when it took the lock, and no sweep has stopped the
\* removed handle.
C32_RemoveLeavesThePlayerAlone ==
  /\ [](\A t \in RThreads :
          /\ thr[t].op = "removePlayer" => thr[t].invoked = {} /\ thr[t].seen = {}
          /\ thr[t].op = "stopAllPlayers" =>
               thr[t].invoked \subseteq MapHandles(thr[t].snap)
          /\ HasRemoved(t) =>
               /\ RemovedHandle(t) \notin MapHandles(players_)
               /\ \A u \in RThreads : RemovedHandle(t) \notin thr[u].invoked
               /\ RemovedHandle(t) \notin td.stopped)
  /\ [](td.asked \subseteq td.swept /\ td.stopped \subseteq td.swept)
  /\ [][RemoveStep => playing' = playing]_vars

\* a playing player was removed, the call has not yet returned; a later
\* stopAllPlayers() did not find it, stopped another player, and the removed
\* one is still playing
C32_Witness ==
  \E a, b \in RThreads :
    /\ HasRemoved(a)
    /\ RemovedHandle(a) \in playing
    /\ thr[b].op = "stopAllPlayers" /\ thr[b].pc = "unlock"
    /\ RemovedHandle(a) \notin MapHandles(thr[b].snap)
    /\ thr[b].invoked # {}

(***************************************************************************)
(* Claims about a creation that yields no instance                         *)
(***************************************************************************)

\* createPlayer of thread t has failed for want of an instance and is about
\* to leave the locked body
PlayerCreationFailed(t) ==
  thr[t].op = "createPlayer" /\ thr[t].out = "noinstance" /\ thr[t].pc = "unlock"

\* the same for createExtractor
ExtractorCreationFailed(t) ==
  xthr[t].op = "createExtractor" /\ xthr[t].out = "noinstance" /\ xthr[t].pc = "unlock"

\* C33: a createPlayer or createExtractor that fails because the platform
\* yields no instance leaves its map as the call found it: the key is not
\* registered and the count is unchanged.
C33_FailedCreationLeavesTheMap ==
  \A t \in RThreads :
    /\ PlayerCreationFailed(t) =>
         /\ players_ = thr[t].snap
         /\ ~HasKey(players_, thr[t].key)
         /\ MapSize(players_) = MapSize(thr[t].snap)
    /\ ExtractorCreationFailed(t) =>
         /\ extractors_ = xthr[t].snap
         /\ ~HasKey(extractors_, xthr[t].key)
         /\ MapSize(extractors_) = MapSize(xthr[t].snap)

\* in each map a creation has failed for want of an instance and has left
\* the lock, and a later creation with the same key has succeeded
C33_Witness ==
  /\ \E a, b \in RThreads :
       /\ thr[a].op = "createPlayer" /\ thr[a].out = "noinstance"
       /\ thr[a].pc \in {"ret", "returned"}
       /\ thr[b].op = "createPlayer" /\ thr[b].out = "ok" /\ thr[b].pc = "unlock"
       /\ thr[b].key = thr[a].key
       /\ HasKey(players_, thr[b].key) /\ ~HasKey(thr[b].snap, thr[b].key)
  /\ \E a, b \in RThreads :
       /\ xthr[a].op = "createExtractor" /\ xthr[a].out = "noinstance"
       /\ xthr[a].pc = "ret"
       /\ xthr[b].op = "createExtractor" /\ xthr[b].out = "ok" /\ xthr[b].pc = "unlock"
       /\ xthr[b].key = xthr[a].key
       /\ HasKey(extractors_, xthr[b].key) /\ ~HasKey(xthr[b].snap, xthr[b].key)

(***************************************************************************)
(* Claims about the order of the checks of createPlayer                    *)
(***************************************************************************)

\* createPlayer of thread t found the map full and is about to leave the
\* locked body
CreatedOnFull(t) ==
  /\ thr[t].op = "createPlayer" /\ thr[t].pc = "unlock"
  /\ MapSize(thr[t].snap) >= MAX_PLAYERS

\* C34: with the map full, createPlayer with a registered key fails as a
\* duplicate, and with an unregistered key it fails for capacity.
C34_DuplicateBeforeCapacity ==
  \A t \in RThreads :
    CreatedOnFull(t) =>
      thr[t].out = (IF HasKey(thr[t].snap, thr[t].key) THEN "duplicate" ELSE "capacity")

\* with MAX_PLAYERS players registered one createPlayer has failed for
\* capacity on an unregistered key and another fails as a duplicate on a
\* registered key
C34_Witness ==
  \E a, b \in RThreads :
    /\ CreatedOnFull(a) /\ thr[a].out = "duplicate"
    /\ HasKey(thr[a].snap, thr[a].key)
    /\ MapSize(players_) = MAX_PLAYERS
    /\ thr[b].op = "createPlayer" /\ thr[b].out = "capacity"
    /\ thr[b].pc \in {"ret", "returned"}
    /\ ~HasKey(players_, thr[b].key)

====
